---- MODULE Spec2Model ----
(***************************************************************************)
(* synthsniff: the batched per-worker-queue Scan (walker, workers, closing *)
(* task, aggregator), the mmap-based analyse with its mapping gate, and    *)
(* the rule engine.  Strings are sequences of byte values, so that path    *)
(* ordering, extensions and substring counting are computed, not assumed.  *)
(***************************************************************************)
EXTENDS Integers, Sequences, FiniteSets, TLC

(***************************************************************************)
(* Bounds of the model.                                                    *)
(***************************************************************************)
\* largest explicitly configured worker count of the small scenarios
MaxWorkers == 2
\* number of regular files of the wide directory of the back-pressure scenario
WideFiles == 193
\* number of regular files listed before the unreadable sub-directory
LateErrFiles == 33

\* the ceiling of getMaxProcs
maxProcsCeiling == 4
\* one worker more than the mapping gate can have tokens
GateWorkers == maxProcsCeiling + 1

(***************************************************************************)
(* Byte strings.                                                           *)
(***************************************************************************)
\* A byte string is a sequence of byte values, written as numbers:
\*   0 NUL   10 "\n"  13 "\r"  32 " "   33 "!"   35 "#"   42 "*"   45 "-"
\*   46 "."  47 "/"   48 "0"   63 "?"   88 "X"   89 "Y"
\*   97 "a"  98 "b"   99 "c"  100 "d"  101 "e"  103 "g"  104 "h"  105 "i"
\*  106 "j" 107 "k"  108 "l"  109 "m"  110 "n"  111 "o"  112 "p"  113 "q"
\*  114 "r" 115 "s"  116 "t"  117 "u"  119 "w"  120 "x"  121 "y"  122 "z"

\* Go's string comparison a < b: bytewise lexicographic
RECURSIVE StrLess(_, _)
StrLess(x, y) ==
  IF y = <<>> THEN FALSE
  ELSE IF x = <<>> THEN TRUE
  ELSE IF Head(x) # Head(y) THEN Head(x) < Head(y)
  ELSE StrLess(Tail(x), Tail(y))

\* strings.HasPrefix
HasPrefix(s, pre) ==
  /\ Len(pre) <= Len(s)
  /\ SubSeq(s, 1, Len(pre)) = pre

\* number of runes of a valid UTF-8 string: the bytes that are not continuation bytes
RuneCount(s) == Cardinality({k \in 1..Len(s) : ~(s[k] >= 128 /\ s[k] <= 191)})

\* strings.Count for a non-empty substr: non-overlapping occurrences, scanning left to right
RECURSIVE CountFrom(_, _, _)
CountFrom(s, sub, k) ==
  IF k + Len(sub) - 1 > Len(s) THEN 0
  ELSE IF SubSeq(s, k, k + Len(sub) - 1) = sub
       THEN 1 + CountFrom(s, sub, k + Len(sub))
       ELSE CountFrom(s, sub, k + 1)

\* strings.Count(s, substr): an empty substr counts the runes plus one
StringsCount(s, sub) ==
  IF sub = <<>> THEN RuneCount(s) + 1 ELSE CountFrom(s, sub, 1)

\* strings.HasSuffix
HasSuffix(s, suf) ==
  /\ Len(suf) <= Len(s)
  /\ SubSeq(s, Len(s) - Len(suf) + 1, Len(s)) = suf

\* strings.Index: the 0-based position of the first occurrence of sub, or -1
StringsIndex(s, sub) ==
  LET at == {k \in 0..(Len(s) - Len(sub)) : SubSeq(s, k + 1, k + Len(sub)) = sub}
  IN IF at = {} THEN -1 ELSE CHOOSE k \in at : \A j \in at : k <= j

\* strings.Split(s, sep) for a one-byte separator
RECURSIVE StringsSplit(_, _, _)
StringsSplit(s, sep, cur) ==
  IF s = <<>> THEN <<cur>>
  ELSE IF Head(s) = sep THEN <<cur>> \o StringsSplit(Tail(s), sep, <<>>)
  ELSE StringsSplit(Tail(s), sep, Append(cur, Head(s)))

\* filepath.Ext: the suffix starting at the last dot of the last path element
RECURSIVE ExtFrom(_, _)
ExtFrom(p, k) ==
  IF k < 1 \/ p[k] = 47 THEN <<>>
  ELSE IF p[k] = 46 THEN SubSeq(p, k, Len(p))
  ELSE ExtFrom(p, k - 1)

Ext(p) == ExtFrom(p, Len(p))


\* the elements of a path between its separators, empty elements included
RECURSIVE SplitFrom(_, _, _)
SplitFrom(p, k, cur) ==
  IF k > Len(p) THEN <<cur>>
  ELSE IF p[k] = 47 THEN <<cur>> \o SplitFrom(p, k + 1, <<>>)
  ELSE SplitFrom(p, k + 1, Append(cur, p[k]))

\* filepath.Clean on the elements: drop empty and "." elements, let ".." remove
\* the element before it (a ".." that has nothing to remove stays in a relative
\* path and is dropped in a rooted one)
RECURSIVE CleanElems(_, _, _)
CleanElems(elems, out, rooted) ==
  IF elems = <<>> THEN out
  ELSE LET el == Head(elems)
           dotdot == <<46, 46>>
       IN IF el = <<>> \/ el = <<46>> THEN CleanElems(Tail(elems), out, rooted)
          ELSE IF el = dotdot
               THEN IF out # <<>> /\ out[Len(out)] # dotdot
                    THEN CleanElems(Tail(elems), SubSeq(out, 1, Len(out) - 1), rooted)
                    ELSE IF rooted THEN CleanElems(Tail(elems), out, rooted)
                    ELSE CleanElems(Tail(elems), Append(out, el), rooted)
          ELSE CleanElems(Tail(elems), Append(out, el), rooted)

RECURSIVE JoinElems(_)
JoinElems(elems) ==
  IF elems = <<>> THEN <<>>
  ELSE IF Len(elems) = 1 THEN Head(elems)
  ELSE Head(elems) \o <<47>> \o JoinElems(Tail(elems))

\* the path has no empty, "." or ".." element and no trailing separator:
\* filepath.Clean returns such a path as it is
IsCleanPath(p) ==
  /\ p # <<>>
  /\ p[Len(p)] # 47
  /\ \A k \in 1..(Len(p) - 1) : ~(p[k] = 47 /\ p[k + 1] = 47)
  /\ \A k \in 1..Len(p) :
       p[k] = 46 /\ (k = 1 \/ p[k - 1] = 47)
         => /\ k < Len(p)
            /\ p[k + 1] # 47
            /\ ~(p[k + 1] = 46 /\ (k + 1 = Len(p) \/ p[k + 2] = 47))

\* filepath.Clean
Clean(p) ==
  IF IsCleanPath(p) THEN p
  ELSE LET rooted == p # <<>> /\ p[1] = 47
           body == JoinElems(CleanElems(SplitFrom(p, 1, <<>>), <<>>, rooted))
       IN IF rooted THEN <<47>> \o body
          ELSE IF body = <<>> THEN <<46>>
          ELSE body

\* the 1-based position of the last separator of p, or 0
LastSlash(p) ==
  LET at == {k \in 1..Len(p) : p[k] = 47}
  IN IF at = {} THEN 0 ELSE CHOOSE k \in at : \A j \in at : j <= k

\* filepath.Dir: all but the last element, cleaned
filepathDir(p) == Clean(SubSeq(p, 1, LastSlash(p)))

\* filepath.Base: the last element; trailing separators are dropped first
RECURSIVE filepathBase(_)
filepathBase(p) ==
  IF p = <<>> THEN <<46>>
  ELSE IF p[Len(p)] = 47
       THEN IF Len(p) = 1 THEN <<47>> ELSE filepathBase(SubSeq(p, 1, Len(p) - 1))
  ELSE SubSeq(p, LastSlash(p) + 1, Len(p))

\* filepath.IsAbs
filepathIsAbs(p) == p # <<>> /\ p[1] = 47

\* the non-empty elements of a cleaned path
PathElems(p) ==
  LET el == SplitFrom(p, 1, <<>>)
  IN IF p = <<46>> THEN <<>>
     ELSE SelectSeq(el, LAMBDA e : e # <<>>)

\* the length of the longest common prefix of two element lists
RECURSIVE CommonElems(_, _)
CommonElems(a, b) ==
  IF a = <<>> \/ b = <<>> \/ Head(a) # Head(b) THEN 0
  ELSE 1 + CommonElems(Tail(a), Tail(b))

\* filepath.Rel(basepath, targpath): the path that leads from basepath to
\* targpath; it fails when only one of them is rooted, and when the way up
\* from basepath passes a ".." element
filepathRel(basepath, targpath) ==
  LET base == Clean(basepath)
      targ == Clean(targpath)
      be == PathElems(base)
      te == PathElems(targ)
      n == CommonElems(be, te)
      brest == SubSeq(be, n + 1, Len(be))
      trest == SubSeq(te, n + 1, Len(te))
      ups == [k \in 1..Len(brest) |-> <<46, 46>>]
  IN IF targ = base THEN [err |-> FALSE, path |-> <<46>>]
     ELSE IF filepathIsAbs(base) # filepathIsAbs(targ) THEN [err |-> TRUE, path |-> <<>>]
     ELSE IF brest # <<>> /\ Head(brest) = <<46, 46>> THEN [err |-> TRUE, path |-> <<>>]
     ELSE [err |-> FALSE, path |-> JoinElems(ups \o trest)]

\* filepath.Join(dir, name): the cleaned concatenation
Join(dir, name) == Clean(dir \o <<47>> \o name)

(***************************************************************************)
(* Rules (rules.go).                                                       *)
(***************************************************************************)
\* a Rule value; MinPercent is kept to whole percents
MkRule(name, pattern, weight, minCount, minPercent, ext, exts) ==
  [name |-> name, pattern |-> pattern, weight |-> weight, minCount |-> minCount,
   minPercent |-> minPercent, ext |-> ext, exts |-> exts]

ExtMd == <<46, 109, 100>>

\* the built-in rule list
baseRules ==
  << MkRule("markdown-hrule", <<10, 45, 45, 45, 10>>, 30, 0, 0, ExtMd, <<>>),
     MkRule("en-dash", <<226, 128, 147>>, 10, 0, 0, <<>>, <<>>),
     MkRule("em-dash", <<226, 128, 148>>, 3, 0, 0, <<>>, <<>>),
     MkRule("left-double-quote", <<226, 128, 156>>, 10, 0, 0, <<>>, <<>>),
     MkRule("right-double-quote", <<226, 128, 157>>, 10, 0, 0, <<>>, <<>>),
     MkRule("non-breaking-space", <<194, 160>>, 10, 0, 0, <<>>, <<>>) >>

\* Rule.appliesToExt
appliesToExt(r, ext) ==
  IF r.ext = <<>> /\ Len(r.exts) = 0 THEN TRUE
  ELSE IF ext = r.ext THEN TRUE
  ELSE \E k \in 1..Len(r.exts) : r.exts[k] = ext

\* mutant of passesThresholds: a percentage equal to MinPercent is rejected
passesThresholdsExclusive(r, count, fileLen) ==
  IF r.minCount > 0 /\ count < r.minCount THEN FALSE
  ELSE IF r.minPercent > 0 /\ fileLen > 0 /\ 100 * count <= r.minPercent * fileLen THEN FALSE
  ELSE TRUE

\* Rule.passesThresholds; 100*count/fileLen < MinPercent is compared exactly, as
\* 100*count < MinPercent*fileLen (fileLen > 0)
passesThresholds(r, count, fileLen) ==
  IF r.minCount > 0 /\ count < r.minCount THEN FALSE
  ELSE IF r.minPercent > 0 /\ fileLen > 0 /\ 100 * count < r.minPercent * fileLen THEN FALSE
  ELSE TRUE

(***************************************************************************)
(* The file tree the scans run on.  A regular file's content is `body`     *)
(* followed by `pad` filler bytes "z"; the filler byte occurs in no rule   *)
(* pattern, so that large files need no large sequences.                   *)
(***************************************************************************)

File(body, pad) ==
  [kind |-> "file", body |-> body, pad |-> pad, readable |-> TRUE, mapOk |-> TRUE,
   entries |-> <<>>, listable |-> FALSE]
Unreadable(f) == [f EXCEPT !.readable = FALSE]
Unmappable(f) == [f EXCEPT !.mapOk = FALSE]
Special ==
  [kind |-> "special", body |-> <<>>, pad |-> 0, readable |-> FALSE, mapOk |-> FALSE,
   entries |-> <<>>, listable |-> FALSE]
Dir(entries) ==
  [kind |-> "dir", body |-> <<>>, pad |-> 0, readable |-> FALSE, mapOk |-> FALSE,
   entries |-> entries, listable |-> TRUE]
Unlistable(d) == [d EXCEPT !.listable = FALSE]

\* file contents
TextHrule == <<88, 10, 45, 45, 45, 10, 89>>
TextQuotes == <<88, 226, 128, 156, 89, 226, 128, 157, 10, 45, 45, 45, 10>>
TextClean == <<97, 98, 99>>
TextBinary == <<88, 0, 10, 45, 45, 45, 10, 226, 128, 147>>
\* "pattern weight"
WordPattern == <<112, 97, 116, 116, 101, 114, 110>>
WordWeight == <<119, 101, 105, 103, 104, 116>>
TextRuleFile == WordPattern \o <<10>> \o WordWeight
\* the pad that makes a file large enough to be memory-mapped
BigPad == 16 * 1024

\* entry names
NGit == <<46, 103, 105, 116>>
NAmd == <<97, 46, 109, 100>>
NCmd == <<99, 46, 109, 100>>
NRyml == <<114, 46, 89, 109, 108>>
\* the name of the k-th generated file: three decimal digits
NumName(k) == <<48 + (k \div 100), 48 + ((k \div 10) % 10), 48 + (k % 10)>>

\* root paths
PT == <<116>>
PX == <<120>>
PW == <<119>>
PV == <<117>>
PMissing == <<109>>
PDict == <<100, 46, 121, 109, 108>>
PBadDict == <<113, 46, 121, 109, 108>>
\* a file outside the trees that looks like a rule dictionary
PRuleFile == <<114, 46, 106, 115, 111, 110>>

\* t/{.git/h, a.md, b, r.Yml, s/c.md}: a text file, a binary file, a file that
\* looks like a rule dictionary, a large text file
TreeT ==
  (PT :> Dir(<<NGit, NAmd, <<98>>, NRyml, <<115>>>>))
  @@ (Join(PT, NGit) :> Dir(<< <<104>> >>))
  @@ (Join(Join(PT, NGit), <<104>>) :> File(TextHrule, 0))
  @@ (Join(PT, NAmd) :> File(TextHrule, 0))
  @@ (Join(PT, <<98>>) :> File(TextBinary, 0))
  @@ (Join(PT, NRyml) :> File(TextRuleFile, 0))
  @@ (Join(PT, <<115>>) :> Dir(<<NCmd>>))
  @@ (Join(Join(PT, <<115>>), NCmd) :> File(TextQuotes, BigPad))

\* x/{c, e, k, l, o, p, q}: a text file, an empty file, a large binary file, a
\* large file whose mapping fails, a large file that cannot be opened, a small
\* file that cannot be read, a fifo
TreeX ==
  (PX :> Dir(<< <<99>>, <<101>>, <<107>>, <<108>>, <<111>>, <<112>>, <<113>> >>))
  @@ (Join(PX, <<99>>) :> File(TextQuotes, 0))
  @@ (Join(PX, <<101>>) :> File(<<>>, 0))
  @@ (Join(PX, <<107>>) :> File(TextBinary, BigPad))
  @@ (Join(PX, <<108>>) :> Unmappable(File(TextHrule, BigPad)))
  @@ (Join(PX, <<111>>) :> Unreadable(File(TextHrule, BigPad)))
  @@ (Join(PX, <<112>>) :> Unreadable(File(TextHrule, 0)))
  @@ (Join(PX, <<113>>) :> Special)

\* w/{001 .. }: a wide directory of small text files
TreeW ==
  (PW :> Dir([k \in 1..WideFiles |-> NumName(k)]))
  @@ [p \in {Join(PW, NumName(k)) : k \in 1..WideFiles} |-> File(TextClean, 0)]

\* u/{001 .. , z/}: small text files and a sub-directory that cannot be listed
TreeV ==
  (PV :> Dir([k \in 1..(LateErrFiles + 1) |->
                IF k <= LateErrFiles THEN NumName(k) ELSE <<122>>]))
  @@ (Join(PV, <<122>>) :> Unlistable(Dir(<<>>)))
  @@ [p \in {Join(PV, NumName(k)) : k \in 1..LateErrFiles} |-> File(TextClean, 0)]

\* parent/{only.log, child/{important.log, other.log, logs/}}: the tree the
\* ignore rules are asked about
NParent == <<112, 97, 114, 101, 110, 116>>
NChild == <<99, 104, 105, 108, 100>>
NLogs == <<108, 111, 103, 115>>
ExtLog == <<46, 108, 111, 103>>
NOnlyLog == <<111, 110, 108, 121>> \o ExtLog
NOtherLog == <<111, 116, 104, 101, 114>> \o ExtLog
NImportantLog == <<105, 109, 112, 111, 114, 116, 97, 110, 116>> \o ExtLog
PParent == NParent
PChild == Join(PParent, NChild)
PLogs == Join(PChild, NLogs)
POnlyLog == Join(PParent, NOnlyLog)
POtherLog == Join(PChild, NOtherLog)
PImportantLog == Join(PChild, NImportantLog)
NGitignore == <<46, 103, 105, 116, 105, 103, 110, 111, 114, 101>>

\* the lines of the ignore files
Line(text) == text \o <<10>>
LStarLog == <<42>> \o ExtLog
LNotImportant == <<33>> \o NImportantLog
LComment == <<35, 32, 99>>
LNotRootChildDir == <<33, 47>> \o NChild \o <<47>>
LLogsDir == NLogs \o <<47>>
LChildOther == NChild \o <<47>> \o NOtherLog
LChildStar == NChild \o <<47, 42>>
LRootOnly == <<47>> \o NOnlyLog
LNotStarLog == <<33>> \o LStarLog
LStarLogDir == LStarLog \o <<47>>
LNotStarLogDir == <<33>> \o LStarLogDir
LQuestion == <<63, 63, 63, 63>> \o ExtLog
LTwoStars == <<111, 42, 46, 42, 103>>
LStarStar == <<99, 42, 42>>

TreeP ==
  (PParent :> Dir(<<NGitignore, NChild, NOnlyLog>>))
  @@ (Join(PParent, NGitignore) :> File(Line(LStarLog), 0))
  @@ (POnlyLog :> File(TextClean, 0))
  @@ (PChild :> Dir(<<NGitignore, NImportantLog, NLogs, NOtherLog>>))
  @@ (Join(PChild, NGitignore) :> File(Line(LNotImportant), 0))
  @@ (PImportantLog :> File(TextClean, 0))
  @@ (POtherLog :> File(TextClean, 0))
  @@ (PLogs :> Dir(<<>>))

\* g/{.git/.gitignore, .gitignore, m/.gitignore, n/.gitignore}: the ignore
\* file of g/m cannot be opened
PG == <<103>>
TreeG ==
  (PG :> Dir(<<NGit, NGitignore, <<109>>, <<110>>>>))
  @@ (Join(PG, NGit) :> Dir(<<NGitignore>>))
  @@ (Join(Join(PG, NGit), NGitignore) :> File(Line(LNotStarLog), 0))
  @@ (Join(PG, NGitignore) :> File(Line(LStarLog), 0))
  @@ (Join(PG, <<109>>) :> Dir(<<NGitignore>>))
  @@ (Join(Join(PG, <<109>>), NGitignore) :> Unreadable(File(Line(LNotImportant), 0)))
  @@ (Join(PG, <<110>>) :> Dir(<<NGitignore>>))
  @@ (Join(Join(PG, <<110>>), NGitignore) :> File(Line(LQuestion), 0))

\* ig/{a..l}: ignore files; ig/k is longer than a line the reader accepts,
\* ig/u cannot be opened
PIg == <<105, 103>>
IgnoreTexts ==
  (<<97>> :> Line(LStarLog))
  @@ (<<98>> :> Line(LNotImportant))
  @@ (<<99>> :> Line(LComment) \o Line(<<>>) \o Line(LNotRootChildDir) \o LLogsDir)
  @@ (<<100>> :> Line(LChildOther))
  @@ (<<101>> :> Line(LRootOnly \o <<13>>) \o Line(<<13>>) \o LNotStarLog)
  @@ (<<103>> :> Line(LStarLog) \o Line(LNotStarLogDir))
  @@ (<<104>> :> Line(<<33>>) \o Line(<<47>>) \o Line(<<33, 35, 120>>)
                  \o Line(<<47, 47>>) \o Line(<<32>>)
                  \o Line(<<47, 33, 120>>))
  @@ (<<105>> :> Line(LQuestion) \o Line(LStarLogDir))
  @@ (<<106>> :> Line(LTwoStars) \o Line(LStarStar) \o Line(<<42>>))
  @@ (<<108>> :> Line(LChildStar))
MaxScanTokenSize == 64 * 1024
TreeIg ==
  (PIg :> Dir(<<<<97>>, <<98>>, <<99>>, <<100>>, <<101>>, <<103>>, <<104>>, <<105>>,
               <<106>>, <<107>>, <<108>>, <<117>>>>))
  @@ [p \in {Join(PIg, n) : n \in DOMAIN IgnoreTexts} |->
        File(IgnoreTexts[CHOOSE n \in DOMAIN IgnoreTexts : Join(PIg, n) = p], 0)]
  @@ (Join(PIg, <<107>>) :> File(Line(LStarLog) \o <<120>>, MaxScanTokenSize))
  @@ (Join(PIg, <<117>>) :> Unreadable(File(Line(LStarLog), 0)))

\* the whole tree; PMissing does not exist
FS == TreeT @@ TreeX @@ TreeW @@ TreeV @@ TreeP @@ TreeG @@ TreeIg
        @@ (PDict :> File(<<>>, 1)) @@ (PBadDict :> File(<<>>, 1))
        @@ (PRuleFile :> File(TextRuleFile, 0))

Exists(p) == p \in DOMAIN FS
Size(f) == Len(f.body) + f.pad
HasZero(data) == \E k \in 1..Len(data.body) : data.body[k] = 0

\* error values
NoErr == [op |-> "nil", path |-> <<>>]
MkErr(op, path) == [op |-> op, path |-> path]

(***************************************************************************)
(* LoadRules: the user dictionary is parsed by an external decoder, so a   *)
(* dictionary file stands for the rule list it decodes to.                 *)
(***************************************************************************)
\* the rules the dictionary PDict decodes to: a negative weight, a minCount, a
\* minPercent, an extension set, and a name used twice
DictRules ==
  << MkRule("neg", <<89>>, -7, 0, 0, <<>>, <<>>),
     MkRule("dashes", <<45>>, 2, 4, 0, <<>>, <<>>),
     MkRule("xs", <<88>>, 5, 0, 10, <<>>, <<>>),
     MkRule("nl", <<10>>, 1, 2, 0, <<>>, <<ExtMd>>),
     MkRule("nl", <<10, 45>>, 4, 0, 0, <<>>, <<>>) >>

\* LoadRules(path): the rule list, or an error
LoadRules(path) ==
  IF path = <<>> THEN [rules |-> baseRules, err |-> NoErr]
  ELSE IF ~Exists(path) \/ FS[path].kind # "file" \/ ~FS[path].readable
       THEN [rules |-> <<>>, err |-> MkErr("readfile", path)]
  ELSE IF path = PDict THEN [rules |-> baseRules \o DictRules, err |-> NoErr]
  ELSE [rules |-> <<>>, err |-> MkErr("dict must be JSON or YAML", path)]

(***************************************************************************)
(* analyse (scanner.go of the mmap variant) and mmapFile (mmap_unix.go).   *)
(***************************************************************************)
\* files below this size are read, the others are memory-mapped
SmallFileLimit == 16 * 1024

NoData == [body |-> <<>>, pad |-> 0]
MmapFail(op, path) == [data |-> NoData, isMapped |-> FALSE, err |-> MkErr(op, path)]

\* mmapFile on the file-system node f of an existing path
mmapNode(path, f) ==
  IF f.kind # "file" THEN MmapFail("not a regular file", path)
  ELSE IF Size(f) = 0 THEN [data |-> NoData, isMapped |-> FALSE, err |-> NoErr]
  ELSE IF Size(f) < SmallFileLimit
       THEN IF f.readable
            THEN [data |-> [body |-> f.body, pad |-> f.pad], isMapped |-> FALSE, err |-> NoErr]
            ELSE MmapFail("readfile", path)
  ELSE IF ~f.readable THEN MmapFail("open", path)
  ELSE IF ~f.mapOk THEN MmapFail("mmap", path)
  ELSE [data |-> [body |-> f.body, pad |-> f.pad], isMapped |-> TRUE, err |-> NoErr]

\* mmapFile(path): (data, isMapped, err)
mmapFile(path) ==
  IF ~Exists(path) THEN MmapFail("stat", path)
  ELSE CHOOSE out \in {mmapNode(path, f) : f \in {FS[path]}} : TRUE

\* a Result value; Detail maps rule names to RuleHit values
MkResult(path, score, detail, smelly) ==
  [path |-> path, score |-> score, detail |-> detail, smelly |-> smelly]
\* Result{Path: path}
ZeroResult(path) == MkResult(path, 0, <<>>, FALSE)

\* strings.Count(content, r.Pattern) on a content of body plus filler bytes
countPattern(data, pattern) ==
  IF pattern = <<>> THEN RuneCount(data.body) + data.pad + 1
  ELSE StringsCount(data.body, pattern)

\* detail[r.Name] = RuleHit{Rule: r, Count: count}
putHit(detail, r, count) ==
  [n \in (DOMAIN detail) \cup {r.name} |->
     IF n = r.name THEN [rule |-> r, count |-> count] ELSE detail[n]]

\* mutant of ruleStep: the thresholds of the rule are not consulted
ruleStepNoThresholds(r, fileExt, data, acc) ==
  LET count == countPattern(data, r.pattern)
  IN IF ~appliesToExt(r, fileExt) THEN acc
     ELSE IF count = 0 THEN acc
     ELSE [score |-> acc.score + count * r.weight, detail |-> putHit(acc.detail, r, count)]

\* mutant of ruleStep: a rule that does not occur is not skipped
ruleStepKeepsZero(r, fileExt, data, acc) ==
  LET count == countPattern(data, r.pattern)
  IN IF ~appliesToExt(r, fileExt) THEN acc
     ELSE IF ~passesThresholds(r, count, Size(data)) THEN acc
     ELSE [score |-> acc.score + count * r.weight, detail |-> putHit(acc.detail, r, count)]

\* one iteration of the loop over the rules of analyse: the new (score, detail)
ruleStep(r, fileExt, data, acc) ==
  LET count == countPattern(data, r.pattern)
  IN IF ~appliesToExt(r, fileExt) THEN acc
     ELSE IF count = 0 \/ ~passesThresholds(r, count, Size(data)) THEN acc
     ELSE [score |-> acc.score + count * r.weight, detail |-> putHit(acc.detail, r, count)]

\* the loop over the rules of analyse, from rule k on: (score, detail)
RECURSIVE ruleLoop(_, _, _, _, _)
ruleLoop(rules, k, fileExt, data, acc) ==
  IF k > Len(rules) THEN acc
  ELSE CHOOSE out \in {ruleLoop(rules, k + 1, fileExt, data, a) :
                         a \in {ruleStep(rules[k], fileExt, data, acc)}} : TRUE

\* mutant of isSmelly: the boundary is exclusive
isSmellyStrict(score, threshold) == score > threshold

\* Smelly: score >= cfg.Threshold
isSmelly(score, threshold) == score >= threshold

\* mutant of evaluate: content with a zero byte is not rejected
evaluateNoBinaryCheck(path, data, rules, cfg) ==
  IF cfg.maxSize > 0 /\ Size(data) > cfg.maxSize THEN ZeroResult(path)
  ELSE LET out == ruleLoop(rules, 1, Ext(path), data, [score |-> 0, detail |-> <<>>])
       IN MkResult(path, out.score, out.detail, isSmelly(out.score, cfg.threshold))

\* analyse after the content was acquired: binary check, size check, rules
evaluate(path, data, rules, cfg) ==
  IF HasZero(data) THEN ZeroResult(path)
  ELSE IF cfg.maxSize > 0 /\ Size(data) > cfg.maxSize THEN ZeroResult(path)
  ELSE LET out == ruleLoop(rules, 1, Ext(path), data, [score |-> 0, detail |-> <<>>])
       IN MkResult(path, out.score, out.detail, isSmelly(out.score, cfg.threshold))

\* the Result analyse returns for a path
analyseResult(path, rules, cfg) ==
  LET m == mmapFile(path)
  IN IF m.err # NoErr THEN ZeroResult(path) ELSE evaluate(path, m.data, rules, cfg)

\* strings.Contains
Contains(s, sub) == StringsCount(s, sub) > 0

\* strings.ToLower on ASCII letters
ToLower(s) == [k \in 1..Len(s) |-> IF s[k] >= 65 /\ s[k] <= 90 THEN s[k] + 32 ELSE s[k]]

(***************************************************************************)
(* IgnoreRules: the pattern table, the ignore-file parser and the matcher.  *)
(* The table is a function on IgnoreDirs; a directory without patterns has  *)
(* the empty list, which the lookup treats like a missing key.              *)
(***************************************************************************)
MkPattern(pattern, negate, directory, root) ==
  [Pattern |-> pattern, Negate |-> negate, Directory |-> directory, Root |-> root]

PDot == <<46>>
PRoot == <<47>>
IgnoreDirs == {PDot, PRoot, PParent, PChild, <<47>> \o PParent, PIg, PG, Join(PG, <<110>>)}

\* NewIgnoreRules
NewIgnoreRules == [d \in IgnoreDirs |-> <<>>]

\* r.patterns[dir], with the empty list for a missing key
PatternsOf(table, dir) == IF dir \in DOMAIN table THEN table[dir] ELSE <<>>

\* the bytes of a file: body, then the filler
Content(f) == f.body \o [k \in 1..f.pad |-> 122]

\* bufio.ScanLines: the text between newlines without one trailing carriage
\* return; an empty rest after the last newline is no line
dropCR(line) ==
  IF line # <<>> /\ line[Len(line)] = 13 THEN SubSeq(line, 1, Len(line) - 1) ELSE line

ScanLines(data) ==
  LET parts == StringsSplit(data, 10, <<>>)
      kept == IF parts[Len(parts)] = <<>> THEN SubSeq(parts, 1, Len(parts) - 1) ELSE parts
  IN [k \in 1..Len(kept) |-> dropCR(kept[k])]

\* bufio.Scanner gives up on a line that does not fit its buffer
ScanFails(f) ==
  LET parts == StringsSplit(f.body, 10, <<>>)
  IN \/ \E k \in 1..Len(parts) : Len(parts[k]) >= MaxScanTokenSize
     \/ Len(parts[Len(parts)]) + f.pad >= MaxScanTokenSize

\* mutant of parseLine: the leading "/" is looked for before the leading "!"
parseLineRootFirst(line) ==
  LET root == HasPrefix(line, <<47>>)
      l1 == IF root THEN Tail(line) ELSE line
      negate == HasPrefix(l1, <<33>>)
      l2 == IF negate THEN Tail(l1) ELSE l1
      directory == HasSuffix(l2, <<47>>)
      l3 == IF directory THEN SubSeq(l2, 1, Len(l2) - 1) ELSE l2
  IN MkPattern(l3, negate, directory, root)

\* the body of the line loop for a line that is kept
parseLine(line) ==
  LET negate == HasPrefix(line, <<33>>)
      l1 == IF negate THEN Tail(line) ELSE line
      root == HasPrefix(l1, <<47>>)
      l2 == IF root THEN Tail(l1) ELSE l1
      directory == HasSuffix(l2, <<47>>)
      l3 == IF directory THEN SubSeq(l2, 1, Len(l2) - 1) ELSE l2
  IN MkPattern(l3, negate, directory, root)

\* the line loop: empty lines and comments are skipped
RECURSIVE parseLines(_)
parseLines(lines) ==
  IF lines = <<>> THEN <<>>
  ELSE IF Head(lines) = <<>> \/ HasPrefix(Head(lines), <<35>>) THEN parseLines(Tail(lines))
  ELSE <<parseLine(Head(lines))>> \o parseLines(Tail(lines))

\* LoadGitignoreFile(path, baseDir) on a table: the error and the new table
LoadGitignoreFile(table, path, baseDir) ==
  IF ~Exists(path) \/ (FS[path].kind = "file" /\ ~FS[path].readable)
  THEN [err |-> MkErr("open", path), patterns |-> table]
  ELSE IF FS[path].kind # "file" \/ ScanFails(FS[path])
  THEN [err |-> MkErr("read", path), patterns |-> table]
  ELSE [err |-> NoErr,
        patterns |-> [d \in DOMAIN table \cup {baseDir} |->
                        IF d = baseDir
                        THEN PatternsOf(table, d) \o parseLines(ScanLines(Content(FS[path])))
                        ELSE table[d]]]

\* LoadCustomIgnoreFile(path) on a table
LoadCustomIgnoreFile(table, path) == LoadGitignoreFile(table, path, filepathDir(path))

\* what the walk of FindAndLoadGitignores carries: the table, the list of
\* loaded files, and how the last callback ended ("nil", "skip" for
\* filepath.SkipDir, or "err" with the error)
WalkState(table, loaded) == [patterns |-> table, loaded |-> loaded, end |-> "nil", err |-> NoErr]
Failed(st, err) == [st EXCEPT !.end = "err", !.err = err]

\* mutant of gitignoreCallback: an ignore file that fails to load is passed over
gitignoreCallbackGoesOn(st, path, walkErr) ==
  IF walkErr # NoErr THEN Failed(st, walkErr)
  ELSE IF FS[path].kind = "dir" /\ filepathBase(path) = NGit THEN [st EXCEPT !.end = "skip"]
  ELSE IF filepathBase(path) = NGitignore
       THEN LET res == LoadGitignoreFile(st.patterns, path, filepathDir(path))
            IN IF res.err # NoErr THEN st
               ELSE [st EXCEPT !.patterns = res.patterns, !.loaded = Append(@, path)]
  ELSE st

\* the callback FindAndLoadGitignores gives to filepath.Walk; walkErr is the
\* error the walk met at path, or NoErr
gitignoreCallback(st, path, walkErr) ==
  IF walkErr # NoErr THEN Failed(st, walkErr)
  ELSE IF FS[path].kind = "dir" /\ filepathBase(path) = NGit THEN [st EXCEPT !.end = "skip"]
  ELSE IF filepathBase(path) = NGitignore
       THEN LET res == LoadGitignoreFile(st.patterns, path, filepathDir(path))
            IN IF res.err # NoErr THEN Failed(st, res.err)
               ELSE [st EXCEPT !.patterns = res.patterns, !.loaded = Append(@, path)]
  ELSE st

\* filepath.Walk over the paths still to visit, the next one first: the
\* callback on the path (with the error if it is missing or a directory that
\* cannot be listed), then the entries of a directory in the order of their
\* names; SkipDir from a directory passes over its entries, from a file over
\* the entries left in its directory
RECURSIVE walk(_, _)
walk(st, todo) ==
  IF todo = <<>> \/ st.end = "err" THEN st
  ELSE LET path == Head(todo)
           IsOther(p) == filepathDir(p) # filepathDir(path)
       IN IF ~Exists(path)
          THEN walk(gitignoreCallback(st, path, MkErr("lstat", path)), Tail(todo))
          ELSE IF FS[path].kind # "dir"
          THEN CHOOSE out \in {walk([st1 EXCEPT !.end = IF @ = "skip" THEN "nil" ELSE @],
                                    IF st1.end = "skip" THEN SelectSeq(Tail(todo), IsOther)
                                    ELSE Tail(todo)) :
                               st1 \in {gitignoreCallback(st, path, NoErr)}} : TRUE
          ELSE LET readErr == IF FS[path].listable THEN NoErr ELSE MkErr("readdir", path)
                   names == [k \in 1..Len(FS[path].entries) |-> Join(path, FS[path].entries[k])]
               IN CHOOSE out \in {walk([st1 EXCEPT !.end = IF @ = "skip" THEN "nil" ELSE @],
                                       IF st1.end = "nil" /\ readErr = NoErr
                                       THEN names \o Tail(todo) ELSE Tail(todo)) :
                                  st1 \in {gitignoreCallback(st, path, readErr)}} : TRUE

\* FindAndLoadGitignores(rootDir) on a table and a list of loaded files
walkResult(st) ==
  [err |-> IF st.end = "err" THEN st.err ELSE NoErr, patterns |-> st.patterns,
   loaded |-> st.loaded]

FindAndLoadGitignores(table, loaded, rootDir) ==
  walkResult(walk(WalkState(table, loaded), <<rootDir>>))

\* filepath.Match for patterns of literal bytes, "?" and "*"
RECURSIVE filepathMatch(_, _)
filepathMatch(pattern, name) ==
  IF pattern = <<>> THEN name = <<>>
  ELSE IF Head(pattern) = 42
       THEN \E k \in 0..Len(name) :
              /\ \A j \in 1..k : name[j] # 47
              /\ filepathMatch(Tail(pattern), SubSeq(name, k + 1, Len(name)))
  ELSE IF name = <<>> THEN FALSE
  ELSE IF Head(pattern) = 63
       THEN Head(name) # 47 /\ filepathMatch(Tail(pattern), Tail(name))
  ELSE Head(pattern) = Head(name) /\ filepathMatch(Tail(pattern), Tail(name))

\* the loop of matchGlob over the parts of a pattern with several "*", from
\* part i (1-based) with the scan position pos
RECURSIVE matchParts(_, _, _, _)
matchParts(parts, i, pos, name) ==
  IF i > Len(parts) THEN TRUE
  ELSE LET part == parts[i]
       IN IF part = <<>> THEN matchParts(parts, i + 1, pos, name)
          ELSE IF i = 1
               THEN IF ~HasPrefix(name, part) THEN FALSE
                    ELSE matchParts(parts, i + 1, Len(part), name)
          ELSE IF i = Len(parts) THEN HasSuffix(name, part)
          ELSE LET idx == StringsIndex(SubSeq(name, pos + 1, Len(name)), part)
               IN IF idx = -1 THEN FALSE
                  ELSE matchParts(parts, i + 1, pos + idx + Len(part), name)

\* matchGlob
matchGlob(pattern, name) ==
  LET parts == StringsSplit(pattern, 42, <<>>)
  IN IF pattern = name THEN TRUE
     ELSE IF Len(parts) = 2 /\ parts[1] = <<>> /\ parts[2] # <<>>
     THEN HasSuffix(name, parts[2])
     ELSE IF Len(parts) = 2 /\ parts[1] # <<>> /\ parts[2] = <<>>
     THEN HasPrefix(name, parts[1])
     ELSE IF Len(parts) = 2 /\ parts[1] # <<>> /\ parts[2] # <<>>
     THEN HasPrefix(name, parts[1]) /\ HasSuffix(name, parts[2])
     ELSE IF Len(parts) > 2 THEN matchParts(parts, 1, 0, name)
     ELSE filepathMatch(pattern, name)

\* os.Stat(filePath) succeeds and reports a directory
IsDirectory(filePath) == Exists(filePath) /\ FS[filePath].kind = "dir"

\* the loop that collects the directories from filepath.Dir(filePath) upwards
RECURSIVE dirsUpFrom(_)
dirsUpFrom(dir) ==
  IF dir = <<>> \/ dir = PDot \/ dir = PRoot THEN <<>>
  ELSE IF filepathDir(dir) = dir THEN <<dir>>
  ELSE <<dir>> \o dirsUpFrom(filepathDir(dir))

Reverse(q) == [k \in 1..Len(q) |-> q[Len(q) + 1 - k]]

\* mutant of relevantDirs: the directories stay in leaf-to-root order
relevantDirsLeafFirst(filePath) == Append(dirsUpFrom(filepathDir(filePath)), PDot)

\* relevantDirs of ShouldIgnore for the cleaned path
relevantDirs(filePath) == Reverse(Append(dirsUpFrom(filepathDir(filePath)), PDot))

\* mutant of patternMatches: a directory-only pattern is tried on files too
patternMatchesAnyKind(pattern, dir, filePath, isDir) ==
  LET fileName == filepathBase(filePath)
      rel == filepathRel(dir, filePath)
      relPath == IF rel.err THEN fileName ELSE rel.path
      pathToMatch == IF filepathIsAbs(relPath) THEN Tail(relPath) ELSE relPath
  IN IF pattern.Root THEN matchGlob(pattern.Pattern, pathToMatch)
     ELSE IF isDir
          THEN matchGlob(pattern.Pattern, relPath) \/ matchGlob(pattern.Pattern, fileName)
     ELSE matchGlob(pattern.Pattern, fileName)

\* mutant of patternMatches: directories are matched by their name only
patternMatchesNameOnly(pattern, dir, filePath, isDir) ==
  LET fileName == filepathBase(filePath)
      rel == filepathRel(dir, filePath)
      relPath == IF rel.err THEN fileName ELSE rel.path
      pathToMatch == IF filepathIsAbs(relPath) THEN Tail(relPath) ELSE relPath
  IN IF pattern.Directory /\ ~isDir THEN FALSE
     ELSE IF pattern.Root THEN matchGlob(pattern.Pattern, pathToMatch)
     ELSE matchGlob(pattern.Pattern, fileName)

\* the body of the pattern loop of ShouldIgnore up to `match`: a pattern that
\* is skipped does not match
patternMatches(pattern, dir, filePath, isDir) ==
  LET fileName == filepathBase(filePath)
      rel == filepathRel(dir, filePath)
      relPath == IF rel.err THEN fileName ELSE rel.path
      pathToMatch == IF filepathIsAbs(relPath) THEN Tail(relPath) ELSE relPath
  IN IF pattern.Directory /\ ~isDir THEN FALSE
     ELSE IF pattern.Root THEN matchGlob(pattern.Pattern, pathToMatch)
     ELSE IF isDir
          THEN matchGlob(pattern.Pattern, relPath) \/ matchGlob(pattern.Pattern, fileName)
     ELSE matchGlob(pattern.Pattern, fileName)

\* mutant of patternLoop: a matching negated pattern flips the verdict
RECURSIVE patternLoopFlips(_, _, _, _, _)
patternLoopFlips(list, dir, filePath, isDir, ignored) ==
  IF list = <<>> THEN ignored
  ELSE patternLoopFlips(Tail(list), dir, filePath, isDir,
                        IF patternMatches(Head(list), dir, filePath, isDir)
                        THEN (IF Head(list).Negate THEN ~ignored ELSE TRUE) ELSE ignored)

\* the pattern loop over one directory's list, from the verdict so far
RECURSIVE patternLoop(_, _, _, _, _)
patternLoop(list, dir, filePath, isDir, ignored) ==
  IF list = <<>> THEN ignored
  ELSE patternLoop(Tail(list), dir, filePath, isDir,
                   IF patternMatches(Head(list), dir, filePath, isDir)
                   THEN ~Head(list).Negate ELSE ignored)

\* the loop over the relevant directories
RECURSIVE dirLoop(_, _, _, _, _)
dirLoop(table, dirs, filePath, isDir, ignored) ==
  IF dirs = <<>> THEN ignored
  ELSE dirLoop(table, Tail(dirs), filePath, isDir,
               patternLoop(PatternsOf(table, Head(dirs)), Head(dirs), filePath, isDir, ignored))

\* ShouldIgnore(filePath) on a table
ShouldIgnore(table, path) ==
  LET filePath == Clean(path)
  IN dirLoop(table, relevantDirs(filePath), filePath, IsDirectory(filePath), FALSE)

(***************************************************************************)
(* Scan: configuration and channels.                                       *)
(***************************************************************************)
VARIABLES
  scn,             \* the inputs of the scan: roots, cfg, and the number of CPUs
  mainpc,          \* position of Scan's own goroutine
  rules,           \* the rule list LoadRules returned
  results,         \* Scan's local slice of collected Results
  ret,             \* what Scan returned: (list, err)
  walker,          \* the walker goroutine: walkDirBreadthFirst's locals and position
  jobChannels,     \* per worker: the batches queued on its job channel
  jobClosed,       \* per worker: how many times its job channel was closed
  worker,          \* per worker: position, rest of its batch, current Result, gate tokens, mapping
  mmapGate,        \* number of tokens in the mapping gate
  resultsChan,     \* the Results queued on the shared results channel
  resultsClosed,   \* how many times the results channel was closed
  closerpc,        \* position of the goroutine that closes the results channel
  walkerErrorChan, \* the walker's error channel
  dispatched,      \* history: the paths sent on job channels, in send order
  patterns,        \* IgnoreRules.patterns: directory -> list of IgnorePattern
  LoadedIgnoreFiles, \* the package's list of the ignore files that were loaded
  wdScan,          \* the single-queue Scan of scanner.go: its goroutines and channels
  call             \* the last call of a function on its own: name, arguments, result

vars == <<scn, mainpc, rules, results, ret, walker, jobChannels, jobClosed, worker,
          mmapGate, resultsChan, resultsClosed, closerpc, walkerErrorChan, dispatched,
          patterns, LoadedIgnoreFiles, wdScan, call>>

\* the single-queue Scan was not called
idleScan ==
  [pc |-> "idle", rules |-> <<>>, workers |-> 0, jobs |-> <<>>, jobsClosed |-> FALSE,
   out |-> <<>>, outClosed |-> FALSE, wpc |-> <<>>, wres |-> <<>>, closer |-> "idle",
   walkerpc |-> "idle", ri |-> 1, queue |-> <<>>, rootErr |-> NoErr, errCh |-> <<>>,
   results |-> <<>>, ret |-> [list |-> <<>>, err |-> NoErr]]

\* no function was called yet
NoCall == [fn |-> "none", in |-> <<>>, out |-> <<>>]

\* getMaxProcs: the number of CPUs, limited to 4
getMaxProcs(ncpu) == IF ncpu > maxProcsCeiling THEN maxProcsCeiling ELSE ncpu

\* capacity of mmapGate
gateCap == getMaxProcs(scn.ncpu)

\* numWorkers of Scan
numWorkers == IF scn.cfg.workers <= 0 THEN getMaxProcs(scn.ncpu) ELSE scn.cfg.workers

Workers == 1..numWorkers

\* capacity of each job channel
jobChanCap == 4
\* capacity of the results channel
resultsChanCap == numWorkers
\* batchSize of walkDirBreadthFirst
batchSize == 32

(***************************************************************************)
(* Scan's own goroutine: start.                                            *)
(***************************************************************************)
idleWalker ==
  [pc |-> "idle", ri |-> 1, dirQueue |-> <<>>, dir |-> <<>>, entries |-> <<>>, ei |-> 1,
   nextWorker |-> 1,
   currentBatches |-> [i \in Workers |-> <<>>], sendTo |-> 1, resume |-> "roots",
   fi |-> 1, ci |-> 1, err |-> NoErr]

idleWorker ==
  [pc |-> "idle", paths |-> <<>>, res |-> ZeroResult(<<>>), tokens |-> 0, mapped |-> FALSE]

NoRet == [list |-> <<>>, err |-> NoErr]

\* where the walker continues after root ri - 1
afterRoot(ri) == IF ri > Len(scn.roots) THEN "dirs" ELSE "roots"

\* Scan up to the collecting loop: load the rules, make the channels, start the
\* workers, the closing goroutine and the walker
ScanStart ==
  /\ mainpc = "start"
  /\ LET l == LoadRules(scn.cfg.dictPath) IN
       IF l.err # NoErr
       THEN /\ mainpc' = "done"
            /\ ret' = [list |-> <<>>, err |-> l.err]
            /\ UNCHANGED <<rules, walker, worker, closerpc>>
       ELSE /\ mainpc' = "collect"
            /\ rules' = l.rules
            /\ walker' = [idleWalker EXCEPT !.pc = afterRoot(1)]
            /\ worker' = [i \in Workers |-> [idleWorker EXCEPT !.pc = "recv"]]
            /\ closerpc' = "wait"
            /\ UNCHANGED ret
  /\ UNCHANGED <<call, patterns, LoadedIgnoreFiles, wdScan, scn, results, jobChannels, jobClosed, mmapGate, resultsChan,
                 resultsClosed, walkerErrorChan, dispatched>>

(***************************************************************************)
(* The walker goroutine: walkDirBreadthFirst, then the error report, then  *)
(* the deferred close of the job channels.                                 *)
(***************************************************************************)
\* dictPath != "" && filepath.Clean(path) == filepath.Clean(dictPath)
isDictFile(path) ==
  scn.cfg.dictPath # <<>> /\ Clean(path) = Clean(scn.cfg.dictPath)

ExtYaml == <<46, 121, 97, 109, 108>>
ExtYml == <<46, 121, 109, 108>>
ExtJson == <<46, 106, 115, 111, 110>>

\* the rule-file heuristic of the directory loop
looksLikeRuleFile(path) ==
  LET ext == ToLower(Ext(path))
      f == FS[path]
  IN /\ ext = ExtYaml \/ ext = ExtYml \/ ext = ExtJson
     /\ f.kind = "file" /\ f.readable /\ Size(f) > 0
     /\ Contains(f.body, WordPattern) /\ Contains(f.body, WordWeight)

\* mutant of addToBatch: a batch is sent when it is longer than batchSize
addToBatchLate(w, path, resume) ==
  LET k == w.nextWorker
      b == Append(w.currentBatches[k], path)
      full == Len(b) > batchSize
  IN [w EXCEPT !.currentBatches[k] = b,
               !.nextWorker = (k % numWorkers) + 1,
               !.sendTo = k,
               !.resume = resume,
               !.pc = IF full THEN "send" ELSE resume]

\* mutant of addToBatch: the next worker is advanced only when a batch is full
addToBatchSameWorker(w, path, resume) ==
  LET k == w.nextWorker
      b == Append(w.currentBatches[k], path)
      full == Len(b) >= batchSize
  IN [w EXCEPT !.currentBatches[k] = b,
               !.nextWorker = IF full THEN (k % numWorkers) + 1 ELSE k,
               !.sendTo = k,
               !.resume = resume,
               !.pc = IF full THEN "send" ELSE resume]

\* append the path to the next worker's batch, note a full batch for sending,
\* and move to the next worker
addToBatch(w, path, resume) ==
  LET k == w.nextWorker
      b == Append(w.currentBatches[k], path)
      full == Len(b) >= batchSize
  IN [w EXCEPT !.currentBatches[k] = b,
               !.nextWorker = (k % numWorkers) + 1,
               !.sendTo = k,
               !.resume = resume,
               !.pc = IF full THEN "send" ELSE resume]

\* one iteration of the loop over the roots, on the walker's locals
rootStep(w) ==
  LET root == scn.roots[w.ri]
      next == afterRoot(w.ri + 1)
      v == [w EXCEPT !.ri = @ + 1, !.pc = next]
  IN IF ~Exists(root) THEN [w EXCEPT !.pc = "report", !.err = MkErr("stat", root)]
     ELSE IF FS[root].kind = "dir" THEN [v EXCEPT !.dirQueue = Append(@, root)]
     ELSE IF isDictFile(root) THEN v
     ELSE addToBatch(v, root, next)

\* the iterations of the loop over the roots up to the next channel send, the
\* first error, or the end of the loop
RECURSIVE runRoots(_)
runRoots(w) ==
  IF w.pc # "roots" THEN w
  ELSE CHOOSE out \in {runRoots(v) : v \in {rootStep(w)}} : TRUE

\* the loop over the roots: everything the walker does on its own between two
\* channel operations is one step
WalkRoots ==
  /\ walker.pc = "roots"
  /\ walker' = runRoots(walker)
  /\ UNCHANGED <<call, patterns, LoadedIgnoreFiles, wdScan, scn, mainpc, rules, results, ret, jobChannels, jobClosed, worker, mmapGate,
                 resultsChan, resultsClosed, closerpc, walkerErrorChan, dispatched>>

\* where the walker continues after entry ei - 1 of the listed directory
afterEntry(entries, ei) == IF ei > Len(entries) THEN "dirs" ELSE "entries"

\* os.ReadDir(dir): the directory's entries, sorted by name, each with its type
ReadDir(dir) ==
  [k \in 1..Len(FS[dir].entries) |->
     [name |-> FS[dir].entries[k], isDir |-> FS[Join(dir, FS[dir].entries[k])].kind = "dir"]]

\* the head of the directory loop: take the next directory and list it
WalkDir ==
  /\ walker.pc = "dirs"
  /\ walker' =
       IF walker.dirQueue = <<>> THEN [walker EXCEPT !.pc = "flush", !.fi = 1]
       ELSE LET dir == Head(walker.dirQueue) IN
            IF ~Exists(dir) \/ ~FS[dir].listable
            THEN [walker EXCEPT !.dirQueue = Tail(@), !.pc = "report", !.err = MkErr("readdir", dir)]
            ELSE [walker EXCEPT !.dirQueue = Tail(@), !.dir = dir, !.entries = ReadDir(dir),
                                !.ei = 1, !.pc = afterEntry(FS[dir].entries, 1)]
  /\ UNCHANGED <<call, patterns, LoadedIgnoreFiles, wdScan, scn, mainpc, rules, results, ret, jobChannels, jobClosed, worker, mmapGate,
                 resultsChan, resultsClosed, closerpc, walkerErrorChan, dispatched>>

\* mutant of entryStep: a directory named .git is queued like any other
entryStepIntoGit(w) ==
  LET entry == w.entries[w.ei]
      entryPath == Join(w.dir, entry.name)
      next == afterEntry(w.entries, w.ei + 1)
      v == [w EXCEPT !.ei = @ + 1, !.pc = next]
  IN IF entry.isDir
     THEN [v EXCEPT !.dirQueue = Append(@, entryPath)]
     ELSE IF isDictFile(entryPath) THEN v
     ELSE IF looksLikeRuleFile(entryPath) THEN v
     ELSE addToBatch(v, entryPath, next)

\* one iteration of the loop over the entries of a directory, on the walker's locals
entryStep(w) ==
  LET entry == w.entries[w.ei]
      entryPath == Join(w.dir, entry.name)
      next == afterEntry(w.entries, w.ei + 1)
      v == [w EXCEPT !.ei = @ + 1, !.pc = next]
  IN IF entry.isDir
     THEN IF entry.name = NGit THEN v ELSE [v EXCEPT !.dirQueue = Append(@, entryPath)]
     ELSE IF isDictFile(entryPath) THEN v
     ELSE IF looksLikeRuleFile(entryPath) THEN v
     ELSE addToBatch(v, entryPath, next)

\* the iterations of the loop over the entries up to the next channel send or
\* the end of the directory
RECURSIVE runEntries(_)
runEntries(w) ==
  IF w.pc # "entries" THEN w
  ELSE CHOOSE out \in {runEntries(v) : v \in {entryStep(w)}} : TRUE

\* the loop over the entries of the current directory, up to the next send
WalkEntries ==
  /\ walker.pc = "entries"
  /\ walker' = runEntries(walker)
  /\ UNCHANGED <<call, patterns, LoadedIgnoreFiles, wdScan, scn, mainpc, rules, results, ret, jobChannels, jobClosed, worker, mmapGate,
                 resultsChan, resultsClosed, closerpc, walkerErrorChan, dispatched>>

\* mutant of WalkSend: the send does not wait for room in the job queue
WalkSendNoBlock ==
  /\ walker.pc = "send"
  /\ LET k == walker.sendTo IN
       /\ jobChannels' = [jobChannels EXCEPT ![k] = Append(@, walker.currentBatches[k])]
       /\ dispatched' = dispatched \o walker.currentBatches[k]
       /\ walker' = [walker EXCEPT !.currentBatches[k] = <<>>, !.pc = walker.resume]
  /\ UNCHANGED <<call, patterns, LoadedIgnoreFiles, wdScan, scn, mainpc, rules, results, ret, jobClosed, worker, mmapGate,
                 resultsChan, resultsClosed, closerpc, walkerErrorChan>>

\* jobChannels[workerID] <- currentBatches[workerID] of sendBatchIfFull: blocks
\* while the channel is full
WalkSend ==
  /\ walker.pc = "send"
  /\ LET k == walker.sendTo IN
       /\ Len(jobChannels[k]) < jobChanCap
       /\ jobChannels' = [jobChannels EXCEPT ![k] = Append(@, walker.currentBatches[k])]
       /\ dispatched' = dispatched \o walker.currentBatches[k]
       /\ walker' = [walker EXCEPT !.currentBatches[k] = <<>>, !.pc = walker.resume]
  /\ UNCHANGED <<call, patterns, LoadedIgnoreFiles, wdScan, scn, mainpc, rules, results, ret, jobClosed, worker, mmapGate,
                 resultsChan, resultsClosed, closerpc, walkerErrorChan>>

\* one iteration of the final loop that sends the remaining partial batches
WalkFlush ==
  /\ walker.pc = "flush"
  /\ LET k == walker.fi
         w == [walker EXCEPT !.fi = @ + 1,
                             !.pc = IF k + 1 > numWorkers THEN "report" ELSE "flush"]
     IN IF Len(walker.currentBatches[k]) > 0
        THEN /\ Len(jobChannels[k]) < jobChanCap
             /\ jobChannels' = [jobChannels EXCEPT ![k] = Append(@, walker.currentBatches[k])]
             /\ dispatched' = dispatched \o walker.currentBatches[k]
             /\ walker' = w
        ELSE /\ walker' = w
             /\ UNCHANGED <<jobChannels, dispatched>>
  /\ UNCHANGED <<call, patterns, LoadedIgnoreFiles, wdScan, scn, mainpc, rules, results, ret, jobClosed, worker, mmapGate,
                 resultsChan, resultsClosed, closerpc, walkerErrorChan>>

\* mutant of WalkReport: after an error the job channels are left open
WalkReportNoClose ==
  /\ walker.pc = "report"
  /\ Len(walkerErrorChan) < 1
  /\ walkerErrorChan' = Append(walkerErrorChan, walker.err)
  /\ walker' = [walker EXCEPT !.pc = IF walker.err # NoErr THEN "done" ELSE "close", !.ci = 1]
  /\ UNCHANGED <<call, patterns, LoadedIgnoreFiles, wdScan, scn, mainpc, rules, results, ret, jobChannels, jobClosed, worker, mmapGate,
                 resultsChan, resultsClosed, closerpc, dispatched>>

\* walkerErrorChan <- err
WalkReport ==
  /\ walker.pc = "report"
  /\ Len(walkerErrorChan) < 1
  /\ walkerErrorChan' = Append(walkerErrorChan, walker.err)
  /\ walker' = [walker EXCEPT !.pc = "close", !.ci = 1]
  /\ UNCHANGED <<call, patterns, LoadedIgnoreFiles, wdScan, scn, mainpc, rules, results, ret, jobChannels, jobClosed, worker, mmapGate,
                 resultsChan, resultsClosed, closerpc, dispatched>>

\* one iteration of the deferred loop that closes the job channels
WalkClose ==
  /\ walker.pc = "close"
  /\ jobClosed' = [jobClosed EXCEPT ![walker.ci] = @ + 1]
  /\ walker' = [walker EXCEPT !.ci = @ + 1,
                              !.pc = IF walker.ci + 1 > numWorkers THEN "done" ELSE "close"]
  /\ UNCHANGED <<call, patterns, LoadedIgnoreFiles, wdScan, scn, mainpc, rules, results, ret, jobChannels, worker, mmapGate,
                 resultsChan, resultsClosed, closerpc, walkerErrorChan, dispatched>>

(***************************************************************************)
(* The worker goroutines: range over the worker's job channel, analyse     *)
(* each path of a batch, send the Result.                                  *)
(***************************************************************************)
\* for paths := range jobChannels[workerID]: take a batch, or leave the loop when
\* the channel is closed and drained (the deferred workersWg.Done follows)
WorkerRecv(i) ==
  /\ worker[i].pc = "recv"
  /\ IF Len(jobChannels[i]) > 0
     THEN /\ worker' = [worker EXCEPT ![i].paths = Head(jobChannels[i]), ![i].pc = "acquire"]
          /\ jobChannels' = [jobChannels EXCEPT ![i] = Tail(@)]
     ELSE /\ jobClosed[i] > 0
          /\ worker' = [worker EXCEPT ![i].pc = "exited"]
          /\ UNCHANGED jobChannels
  /\ UNCHANGED <<call, patterns, LoadedIgnoreFiles, wdScan, scn, mainpc, rules, results, ret, walker, jobClosed, mmapGate,
                 resultsChan, resultsClosed, closerpc, walkerErrorChan, dispatched>>

\* mutant of AnalyseAcquire: the gate does not block
AnalyseAcquireNoGate(i) ==
  /\ worker[i].pc = "acquire"
  /\ mmapGate' = mmapGate + 1
  /\ worker' = [worker EXCEPT ![i].tokens = @ + 1, ![i].pc = "mmap"]
  /\ UNCHANGED <<call, patterns, LoadedIgnoreFiles, wdScan, scn, mainpc, rules, results, ret, walker, jobChannels, jobClosed,
                 resultsChan, resultsClosed, closerpc, walkerErrorChan, dispatched>>

\* analyse: mmapGate <- struct{}{} before mmapFile; blocks while the gate is full
AnalyseAcquire(i) ==
  /\ worker[i].pc = "acquire"
  /\ mmapGate < gateCap
  /\ mmapGate' = mmapGate + 1
  /\ worker' = [worker EXCEPT ![i].tokens = @ + 1, ![i].pc = "mmap"]
  /\ UNCHANGED <<call, patterns, LoadedIgnoreFiles, wdScan, scn, mainpc, rules, results, ret, walker, jobChannels, jobClosed,
                 resultsChan, resultsClosed, closerpc, walkerErrorChan, dispatched>>

\* mutant of AnalyseMmap: a rejected file returns before the unmapping is
\* deferred
AnalyseMmapRejectSkipsUnmap(i) ==
  /\ worker[i].pc = "mmap"
  /\ \E path \in {Head(worker[i].paths)} : \E m \in {mmapFile(path)} :
       \E res \in {IF m.err # NoErr THEN ZeroResult(path)
                    ELSE evaluate(path, m.data, rules, scn.cfg)} :
         worker' = [worker EXCEPT
                      ![i].tokens = @ - 1,
                      ![i].mapped = m.isMapped,
                      ![i].res = res,
                      ![i].pc = IF m.isMapped /\ res # ZeroResult(path)
                                THEN "unmapAcquire" ELSE "send"]
  /\ mmapGate' = mmapGate - 1
  /\ UNCHANGED <<call, patterns, LoadedIgnoreFiles, wdScan, scn, mainpc, rules, results, ret, walker, jobChannels, jobClosed,
                 resultsChan, resultsClosed, closerpc, walkerErrorChan, dispatched>>

\* mutant of AnalyseMmap: a failed mmapFile returns without releasing the gate
AnalyseMmapLeak(i) ==
  /\ worker[i].pc = "mmap"
  /\ \E path \in {Head(worker[i].paths)} : \E m \in {mmapFile(path)} :
       /\ worker' = [worker EXCEPT
                       ![i].tokens = IF m.err # NoErr THEN @ ELSE @ - 1,
                       ![i].mapped = m.isMapped,
                       ![i].res = IF m.err # NoErr THEN ZeroResult(path)
                                  ELSE evaluate(path, m.data, rules, scn.cfg),
                       ![i].pc = IF m.isMapped THEN "unmapAcquire" ELSE "send"]
       /\ mmapGate' = IF m.err # NoErr THEN mmapGate ELSE mmapGate - 1
  /\ UNCHANGED <<call, patterns, LoadedIgnoreFiles, wdScan, scn, mainpc, rules, results, ret, walker, jobChannels, jobClosed,
                 resultsChan, resultsClosed, closerpc, walkerErrorChan, dispatched>>

\* mutant of AnalyseMmap: a failed mmapFile ends the worker
AnalyseMmapAbort(i) ==
  /\ worker[i].pc = "mmap"
  /\ \E path \in {Head(worker[i].paths)} : \E m \in {mmapFile(path)} :
       worker' = [worker EXCEPT
                    ![i].tokens = @ - 1,
                    ![i].mapped = m.isMapped,
                    ![i].res = IF m.err # NoErr THEN ZeroResult(path)
                               ELSE evaluate(path, m.data, rules, scn.cfg),
                    ![i].pc = IF m.err # NoErr THEN "exited"
                              ELSE IF m.isMapped THEN "unmapAcquire" ELSE "send"]
  /\ mmapGate' = mmapGate - 1
  /\ UNCHANGED <<call, patterns, LoadedIgnoreFiles, wdScan, scn, mainpc, rules, results, ret, walker, jobChannels, jobClosed,
                 resultsChan, resultsClosed, closerpc, walkerErrorChan, dispatched>>

\* mutant of AnalyseMmap: the token is kept while the file stays mapped
AnalyseMmapHoldsToken(i) ==
  /\ worker[i].pc = "mmap"
  /\ \E path \in {Head(worker[i].paths)} : \E m \in {mmapFile(path)} :
       worker' = [worker EXCEPT
                    ![i].tokens = IF m.isMapped THEN @ ELSE @ - 1,
                    ![i].mapped = m.isMapped,
                    ![i].res = IF m.err # NoErr THEN ZeroResult(path)
                               ELSE evaluate(path, m.data, rules, scn.cfg),
                    ![i].pc = IF m.isMapped THEN "unmapAcquire" ELSE "send"]
  /\ mmapGate' = IF mmapFile(Head(worker[i].paths)).isMapped THEN mmapGate ELSE mmapGate - 1
  /\ UNCHANGED <<call, patterns, LoadedIgnoreFiles, wdScan, scn, mainpc, rules, results, ret, walker, jobChannels, jobClosed,
                 resultsChan, resultsClosed, closerpc, walkerErrorChan, dispatched>>

\* analyse: mmapFile(path), <-mmapGate, and the rest of the body up to its return
\* value; a mapped file stays mapped until the deferred function has run
AnalyseMmap(i) ==
  /\ worker[i].pc = "mmap"
  /\ \E path \in {Head(worker[i].paths)} : \E m \in {mmapFile(path)} :
       worker' = [worker EXCEPT
                    ![i].tokens = @ - 1,
                    ![i].mapped = m.isMapped,
                    ![i].res = IF m.err # NoErr THEN ZeroResult(path)
                               ELSE evaluate(path, m.data, rules, scn.cfg),
                    ![i].pc = IF m.isMapped THEN "unmapAcquire" ELSE "send"]
  /\ mmapGate' = mmapGate - 1
  /\ UNCHANGED <<call, patterns, LoadedIgnoreFiles, wdScan, scn, mainpc, rules, results, ret, walker, jobChannels, jobClosed,
                 resultsChan, resultsClosed, closerpc, walkerErrorChan, dispatched>>

\* analyse, deferred function: mmapGate <- struct{}{} before unmapFile
AnalyseUnmapAcquire(i) ==
  /\ worker[i].pc = "unmapAcquire"
  /\ mmapGate < gateCap
  /\ mmapGate' = mmapGate + 1
  /\ worker' = [worker EXCEPT ![i].tokens = @ + 1, ![i].pc = "unmap"]
  /\ UNCHANGED <<call, patterns, LoadedIgnoreFiles, wdScan, scn, mainpc, rules, results, ret, walker, jobChannels, jobClosed,
                 resultsChan, resultsClosed, closerpc, walkerErrorChan, dispatched>>

\* analyse, deferred function: unmapFile(data), <-mmapGate
AnalyseUnmap(i) ==
  /\ worker[i].pc = "unmap"
  /\ mmapGate' = mmapGate - 1
  /\ worker' = [worker EXCEPT ![i].tokens = @ - 1, ![i].mapped = FALSE, ![i].pc = "send"]
  /\ UNCHANGED <<call, patterns, LoadedIgnoreFiles, wdScan, scn, mainpc, rules, results, ret, walker, jobChannels, jobClosed,
                 resultsChan, resultsClosed, closerpc, walkerErrorChan, dispatched>>

\* resultsChan <- analyse(path, rules, cfg): blocks while the channel is full
WorkerSend(i) ==
  /\ worker[i].pc = "send"
  /\ Len(resultsChan) < resultsChanCap
  /\ resultsChan' = Append(resultsChan, worker[i].res)
  /\ worker' = [worker EXCEPT ![i].paths = Tail(@),
                              ![i].pc = IF Len(worker[i].paths) > 1 THEN "acquire" ELSE "recv"]
  /\ UNCHANGED <<call, patterns, LoadedIgnoreFiles, wdScan, scn, mainpc, rules, results, ret, walker, jobChannels, jobClosed, mmapGate,
                 resultsClosed, closerpc, walkerErrorChan, dispatched>>

\* mutant of CloseResults: the results channel is closed without waiting for the workers
CloseResultsNoWait ==
  /\ closerpc = "wait"
  /\ resultsClosed' = resultsClosed + 1
  /\ closerpc' = "done"
  /\ UNCHANGED <<call, patterns, LoadedIgnoreFiles, wdScan, scn, mainpc, rules, results, ret, walker, jobChannels, jobClosed, worker,
                 mmapGate, resultsChan, walkerErrorChan, dispatched>>

\* the closing goroutine: workersWg.Wait(); close(resultsChan)
CloseResults ==
  /\ closerpc = "wait"
  /\ \A i \in Workers : worker[i].pc = "exited"
  /\ resultsClosed' = resultsClosed + 1
  /\ closerpc' = "done"
  /\ UNCHANGED <<call, patterns, LoadedIgnoreFiles, wdScan, scn, mainpc, rules, results, ret, walker, jobChannels, jobClosed, worker,
                 mmapGate, resultsChan, walkerErrorChan, dispatched>>

(***************************************************************************)
(* Scan's own goroutine: collect, read the walker's error, sort, return.   *)
(***************************************************************************)
\* mutant of insertByPath: the Result is put in front
insertFront(sorted, r) == <<r>> \o sorted

\* insert a Result after the Results whose path is not greater
insertByPath(sorted, r) ==
  LET pos == Cardinality({k \in 1..Len(sorted) : ~StrLess(r.path, sorted[k].path)})
  IN SubSeq(sorted, 1, pos) \o <<r>> \o SubSeq(sorted, pos + 1, Len(sorted))

\* the first n Results of the list in ascending path order
RECURSIVE sortPrefix(_, _)
sortPrefix(list, n) ==
  IF n = 0 THEN <<>>
  ELSE CHOOSE out \in {insertByPath(s, list[n]) : s \in {sortPrefix(list, n - 1)}} : TRUE

\* mutant of sortByPath: the list is returned in arrival order
noSort(list) == list

\* sort.Slice(results, by Path <): the Results in ascending path order
sortByPath(list) == sortPrefix(list, Len(list))

\* for result := range resultsChan: one Result received and appended
Collect ==
  /\ mainpc = "collect"
  /\ Len(resultsChan) > 0
  /\ results' = Append(results, Head(resultsChan))
  /\ resultsChan' = Tail(resultsChan)
  /\ UNCHANGED <<call, patterns, LoadedIgnoreFiles, wdScan, scn, mainpc, rules, ret, walker, jobChannels, jobClosed, worker, mmapGate,
                 resultsClosed, closerpc, walkerErrorChan, dispatched>>

\* the range loop ends: the results channel is closed and drained
CollectEnd ==
  /\ mainpc = "collect"
  /\ Len(resultsChan) = 0
  /\ resultsClosed > 0
  /\ mainpc' = "waitErr"
  /\ UNCHANGED <<call, patterns, LoadedIgnoreFiles, wdScan, scn, rules, results, ret, walker, jobChannels, jobClosed, worker, mmapGate,
                 resultsChan, resultsClosed, closerpc, walkerErrorChan, dispatched>>

\* err := <-walkerErrorChan; return nil, err, or sort and return results, nil
Return ==
  /\ mainpc = "waitErr"
  /\ Len(walkerErrorChan) > 0
  /\ walkerErrorChan' = Tail(walkerErrorChan)
  /\ ret' = IF Head(walkerErrorChan) # NoErr
            THEN [list |-> <<>>, err |-> Head(walkerErrorChan)]
            ELSE [list |-> sortByPath(results), err |-> NoErr]
  /\ mainpc' = "done"
  /\ UNCHANGED <<call, patterns, LoadedIgnoreFiles, wdScan, scn, rules, results, walker, jobChannels, jobClosed, worker, mmapGate,
                 resultsChan, resultsClosed, closerpc, dispatched>>

(***************************************************************************)
(* Scenarios: the inputs a scan is started with.                           *)
(***************************************************************************)
MkCfg(dictPath, threshold, maxSize, workers) ==
  [dictPath |-> dictPath, threshold |-> threshold, maxSize |-> maxSize, workers |-> workers,
   useGitignore |-> FALSE, ignoreFile |-> <<>>]
\* the configuration parseFlags builds under -use-gitignore
WithGitignore(cfg) == [cfg EXCEPT !.useGitignore = TRUE]
MkScn(roots, cfg, ncpu) == [roots |-> roots, cfg |-> cfg, ncpu |-> ncpu]

\* runtime.NumCPU() of the machines considered
CPUs == {1, 8}

PAmd == Join(PT, NAmd)
PSub == Join(PT, <<115>>)

\* one tree, a root given twice, a root nested in another, a missing root, a
\* missing root after a file root
SmallRoots ==
  { <<PT>>, <<PAmd, PAmd>>, <<PT, PSub>>, <<PMissing>>, <<Join(PT, <<98>>), PMissing>> }

\* every root list under every worker count (0 is the default) and CPU count
ConcurrencyScns ==
  { MkScn(r, MkCfg(<<>>, 30, 0, w), n) : r \in SmallRoots, w \in 0..MaxWorkers, n \in CPUs }

\* a tree with files that cannot be acquired, under one and two workers
FailScns == { MkScn(<<PX>>, MkCfg(<<>>, 30, 0, w), 1) : w \in 1..2 }

\* one tree under every threshold, size limit and dictionary
ConfigScns ==
  { MkScn(<<PT>>, MkCfg(d, t, m, 1), 1) :
      d \in {<<>>, PDict, PBadDict, PMissing}, t \in {-1, 0, 30, 31}, m \in {0, 5, BigPad} }

\* the dictionary and a file that looks like a rule dictionary given as roots
RuleFileScns == { MkScn(<<PDict, PRuleFile, PAmd>>, MkCfg(PDict, 30, 0, 1), 1) }

\* scans of a tree that holds .gitignore files, asked to respect them
GitignoreScns == { MkScn(<<PParent>>, WithGitignore(MkCfg(<<>>, 30, 0, 1)), 1) }

\* more workers than gate tokens, and a large file for each of them: the same
\* large file given as a root once per worker
GateScns ==
  { MkScn([k \in 1..GateWorkers |-> Join(PSub, NCmd)], MkCfg(<<>>, 30, 0, GateWorkers), 8) }

\* a directory error after a full batch was sent
LateErrScns == { MkScn(<<PV>>, MkCfg(<<>>, 30, 0, 1), 1) }

\* a directory wide enough to fill a job channel, and the small root lists
\* under one CPU (one gate token)
WideScns ==
  { MkScn(<<PW>>, MkCfg(<<>>, 30, 0, 1), 1) }
  \cup { MkScn(r, MkCfg(<<>>, 30, 0, w), 1) : r \in SmallRoots, w \in 1..MaxWorkers }

InitWith(scns) ==
  /\ scn \in scns
  /\ mainpc = "start"
  /\ rules = <<>>
  /\ results = <<>>
  /\ ret = NoRet
  /\ walker = idleWalker
  /\ jobChannels = [i \in Workers |-> <<>>]
  /\ jobClosed = [i \in Workers |-> 0]
  /\ worker = [i \in Workers |-> idleWorker]
  /\ mmapGate = 0
  /\ resultsChan = <<>>
  /\ resultsClosed = 0
  /\ closerpc = "idle"
  /\ walkerErrorChan = <<>>
  /\ dispatched = <<>>
  /\ patterns = NewIgnoreRules
  /\ LoadedIgnoreFiles = <<>>
  /\ wdScan = idleScan
  /\ call = NoCall

Init == InitWith(ConcurrencyScns \cup FailScns \cup ConfigScns \cup LateErrScns \cup RuleFileScns
                 \cup GitignoreScns)
InitGate == InitWith(GateScns \cup LateErrScns)
InitWide == InitWith(WideScns \cup LateErrScns)

Next ==
  \/ ScanStart
  \/ Collect
  \/ CollectEnd
  \/ Return
  \/ CloseResults
  \/ \E i \in Workers : WorkerRecv(i)
  \/ \E i \in Workers : AnalyseAcquire(i)
  \/ \E i \in Workers : AnalyseMmap(i)
  \/ \E i \in Workers : AnalyseUnmapAcquire(i)
  \/ \E i \in Workers : AnalyseUnmap(i)
  \/ \E i \in Workers : WorkerSend(i)
  \/ WalkSend
  \/ WalkFlush
  \/ WalkReport
  \/ WalkClose
  \/ WalkDir
  \/ WalkRoots
  \/ WalkEntries

\* the scans of the small trees
Spec == Init /\ [][Next]_vars
\* the scans of the wide directories
SpecWide == InitWide /\ [][Next]_vars
\* the Go scheduler runs a goroutine that can run: some enabled step is taken
FairSpec == Init /\ [][Next]_vars /\ WF_vars(Next)
\* the scans with more workers than gate tokens
SpecGate == InitGate /\ [][Next]_vars
FairSpecWide == InitWide /\ [][Next]_vars /\ WF_vars(Next)

(***************************************************************************)
(* Properties.                                                             *)
(***************************************************************************)
\* how often a path occurs in a list of paths, and in a list of Results
PathCount(paths, p) == Cardinality({k \in 1..Len(paths) : paths[k] = p})
ResultCount(list, p) == Cardinality({k \in 1..Len(list) : list[k].path = p})

\* the list holds one Result for each occurrence of a path in paths, and no other
OneResultPerPath(list, paths) ==
  /\ Len(list) = Len(paths)
  /\ \A k \in 1..Len(paths) : ResultCount(list, paths[k]) = PathCount(paths, paths[k])

\* the walker finished walkDirBreadthFirst with an error
walkFailed == walker.err # NoErr

\* C1: under fair scheduling every scan returns, and when enumeration succeeded
\* the returned list holds exactly one Result for each dispatched path.
ScanTerminatesWithOneResultPerJob ==
  /\ <>(mainpc = "done")
  /\ [](mainpc = "done" /\ ret.err = NoErr => OneResultPerPath(ret.list, dispatched))

\* C1 witness: a scan of a tree larger than a job channel can queue has returned
\* its Results
WideScanReturned ==
  /\ mainpc = "done"
  /\ ret.err = NoErr
  /\ Len(ret.list) > jobChanCap * batchSize
  /\ Len(ret.list) = Len(dispatched)

\* C2: after a walker error every job channel is closed, the workers finish the
\* dispatched batches, and Scan returns (nil, that error) after the results
\* channel was closed; an error never comes with results; the scan returns.
WalkErrorReportedAfterDrain ==
  /\ [](walkFailed /\ walker.pc = "done" => \A i \in Workers : jobClosed[i] = 1)
  /\ [](walkFailed /\ mainpc = "done" =>
          /\ ret = [list |-> <<>>, err |-> walker.err]
          /\ resultsClosed = 1
          /\ \A i \in Workers : worker[i].pc = "exited"
          /\ OneResultPerPath(results, dispatched))
  /\ [](ret.err # NoErr => ret.list = <<>>)
  /\ (walkFailed ~> mainpc = "done")

\* C2 witness: Scan returned a walker error after a full batch was dispatched
\* and analysed
ErrorAfterDispatchedBatch ==
  /\ mainpc = "done"
  /\ walkFailed
  /\ ret.err = walker.err
  /\ Len(dispatched) >= batchSize
  /\ Len(results) = Len(dispatched)

\* the files a walk of the queued directories dispatches, breadth-first, and its
\* error; it does not depend on the number of workers
RECURSIVE refWalk(_, _)
refWalk(queue, files) ==
  IF queue = <<>> THEN [files |-> files, err |-> NoErr]
  ELSE IF ~Exists(Head(queue)) \/ ~FS[Head(queue)].listable
       THEN [files |-> <<>>, err |-> MkErr("readdir", Head(queue))]
  ELSE LET dir == Head(queue)
           paths == [k \in 1..Len(FS[dir].entries) |-> Join(dir, FS[dir].entries[k])]
           IsSubdir(p) == FS[p].kind = "dir" /\ p # Join(dir, NGit)
           IsJob(p) == FS[p].kind # "dir" /\ ~isDictFile(p) /\ ~looksLikeRuleFile(p)
       IN CHOOSE out \in {refWalk(q, f) : q \in {Tail(queue) \o SelectSeq(paths, IsSubdir)},
                                          f \in {files \o SelectSeq(paths, IsJob)}} : TRUE

\* what a scan of scn.roots under scn.cfg returns, computed without workers:
\* the error, or the Results of the dispatched files in walk order
refScan ==
  LET l == LoadRules(scn.cfg.dictPath)
      missing == {k \in 1..Len(scn.roots) : ~Exists(scn.roots[k])}
      IsDirRoot(p) == FS[p].kind = "dir"
      IsFileRoot(p) == FS[p].kind # "dir" /\ ~isDictFile(p)
      w == refWalk(SelectSeq(scn.roots, IsDirRoot), SelectSeq(scn.roots, IsFileRoot))
  IN IF l.err # NoErr THEN [list |-> <<>>, err |-> l.err]
     ELSE IF missing # {}
          THEN [list |-> <<>>,
                err |-> MkErr("stat", scn.roots[CHOOSE k \in missing : \A j \in missing : k <= j])]
     ELSE IF w.err # NoErr THEN [list |-> <<>>, err |-> w.err]
     ELSE [list |-> [k \in 1..Len(w.files) |-> analyseResult(w.files[k], l.rules, scn.cfg)],
           err |-> NoErr]

\* the two lists hold the same Results the same number of times
SameResults(xs, ys) ==
  /\ Len(xs) = Len(ys)
  /\ \A k \in 1..Len(xs) :
       Cardinality({j \in 1..Len(xs) : xs[j] = xs[k]}) = Cardinality({j \in 1..Len(ys) : ys[j] = xs[k]})

\* no Result of the list has a path smaller than its predecessor's
AscendingByPath(list) ==
  \A k \in 1..(Len(list) - 1) : ~StrLess(list[k + 1].path, list[k].path)

\* every Result of the list has a path greater than its predecessor's
StrictlyAscendingByPath(list) ==
  \A k \in 1..(Len(list) - 1) : StrLess(list[k].path, list[k + 1].path)

\* C3: what Scan returns is fixed by the roots, the rules and the configuration
\* other than the worker count: for every worker count (0 for the default) and
\* every interleaving it is the reference error, or the reference Results in
\* ascending path order.
ResultIndependentOfWorkers ==
  mainpc = "done" =>
    IF refScan.err # NoErr THEN ret = refScan
    ELSE /\ ret.err = NoErr
         /\ AscendingByPath(ret.list)
         /\ SameResults(ret.list, refScan.list)

\* C3 witness: a scan with several workers returned Results that had arrived in
\* another order than the returned one
ReturnedOrderDiffersFromArrival ==
  /\ mainpc = "done"
  /\ numWorkers >= 2
  /\ ret.err = NoErr
  /\ Len(results) >= 2
  /\ ret.list # results

\* path p lies under directory d
IsUnder(p, d) == d = <<46>> \/ HasPrefix(p, d \o <<47>>)

\* two roots are the same path, or one lies under the other
RootsOverlap ==
  \E i, j \in 1..Len(scn.roots) :
    /\ i # j
    /\ \/ Clean(scn.roots[i]) = Clean(scn.roots[j])
       \/ IsUnder(Clean(scn.roots[i]), Clean(scn.roots[j]))

\* C4 as stated: the returned list is strictly ascending by path, for any roots.
ReturnedListStrictlySorted ==
  mainpc = "done" /\ ret.err = NoErr => StrictlyAscendingByPath(ret.list)

\* C4 amended: the returned list is ascending by path, and strictly ascending
\* (no path twice) when no root is given twice or lies under another root.
ReturnedListSorted ==
  mainpc = "done" /\ ret.err = NoErr =>
    /\ AscendingByPath(ret.list)
    /\ ~RootsOverlap => StrictlyAscendingByPath(ret.list)

\* C4 witness: a returned list that holds a path twice
ReturnedListWithDuplicate ==
  /\ mainpc = "done"
  /\ ret.err = NoErr
  /\ \E k \in 1..(Len(ret.list) - 1) : ret.list[k].path = ret.list[k + 1].path

\* the workers that hold a mapping
MappedWorkers == {i \in Workers : worker[i].mapped}

\* the workers inside mmapFile or unmapFile
MappingWorkers == {i \in Workers : worker[i].pc \in {"mmap", "unmap"}}

Min(a, b) == IF a < b THEN a ELSE b

RECURSIVE tokensHeld(_)
tokensHeld(n) == IF n = 0 THEN 0 ELSE worker[n].tokens + tokensHeld(n - 1)

\* C6: every token put into the gate by analyse is taken out again before
\* analyse returns, on every exit path: the gate holds exactly the tokens of the
\* workers inside mmapFile or unmapFile, never more than its capacity; a worker
\* waiting on a channel holds none; the gate is empty when all workers exited.
GateTokensPaired ==
  /\ mmapGate >= 0 /\ mmapGate <= gateCap
  /\ mmapGate = tokensHeld(numWorkers)
  /\ \A i \in Workers :
       worker[i].tokens = IF worker[i].pc \in {"mmap", "unmap"} THEN 1 ELSE 0
  /\ (\A i \in Workers : worker[i].pc = "exited") => mmapGate = 0

\* the file at the path cannot be acquired by mmapFile
AcquisitionFails(path) ==
  \/ ~Exists(path)
  \/ FS[path].kind # "file"
  \/ Size(FS[path]) > 0 /\ ~FS[path].readable
  \/ Size(FS[path]) >= SmallFileLimit /\ ~FS[path].mapOk

\* the file at the path is acquired and has a zero byte
IsBinary(path) == ~AcquisitionFails(path) /\ HasZero(FS[path])

\* the file at the path is acquired and larger than a positive MaxSize
IsOversized(path) ==
  ~AcquisitionFails(path) /\ scn.cfg.maxSize > 0 /\ Size(FS[path]) > scn.cfg.maxSize

\* the score the rules give the content of the file at the path
RuleScore(path) ==
  ruleLoop(rules, 1, Ext(path), FS[path], [score |-> 0, detail |-> <<>>]).score

\* the Results of the scan: those analyse has just returned to a worker, and
\* those Scan returned
Produced ==
  {worker[i].res : i \in {j \in Workers : worker[j].pc = "send"}}
  \cup (IF mainpc = "done" THEN {ret.list[k] : k \in 1..Len(ret.list)} ELSE {})

\* C6 witness: all workers have exited with an empty gate after analyse left by
\* a mapping failure, a binary rejection and a normal completion of a mapped file
GateEmptyAfterEveryExitPath ==
  /\ \A i \in Workers : worker[i].pc = "exited"
  /\ mmapGate = 0
  /\ \E k \in 1..Len(results) : AcquisitionFails(results[k].path)
  /\ \E k \in 1..Len(results) : IsBinary(results[k].path) /\ Size(FS[results[k].path]) >= SmallFileLimit
  /\ \E k \in 1..Len(results) : results[k].score > 0

\* C7: the Result of a file with a zero byte, and of a file larger than a
\* positive MaxSize, has score 0, no detail and Smelly false, whatever the
\* content matches and whatever the threshold.
RejectedFilesScoreZero ==
  \A r \in Produced :
    IsBinary(r.path) \/ IsOversized(r.path)
      => r = [path |-> r.path, score |-> 0, detail |-> <<>>, smelly |-> FALSE]

\* C7 witness: under a threshold of 0 or less, a binary file and an oversized
\* text file whose contents match rules were given their Results
RejectedDespiteMatches ==
  /\ scn.cfg.threshold <= 0
  /\ \E k \in 1..Len(results) : IsBinary(results[k].path) /\ RuleScore(results[k].path) > 0
  /\ \E k \in 1..Len(results) :
       /\ IsOversized(results[k].path) /\ ~IsBinary(results[k].path)
       /\ RuleScore(results[k].path) > 0

\* C8: a file that cannot be acquired gets the zero-value Result; the worker goes
\* on, so that a scan whose enumeration succeeded returns no error and one
\* Result for each dispatched path, the Results of the other paths being those
\* of their contents.
AcquisitionFailureIsZeroResult ==
  /\ \A r \in Produced :
       IF AcquisitionFails(r.path)
       THEN r = [path |-> r.path, score |-> 0, detail |-> <<>>, smelly |-> FALSE]
       ELSE r = evaluate(r.path, FS[r.path], rules, scn.cfg)
  /\ mainpc = "done" /\ ret.err # NoErr =>
       \/ walkFailed /\ ret.err = walker.err
       \/ ret.err = LoadRules(scn.cfg.dictPath).err
  /\ mainpc = "done" /\ ret.err = NoErr => OneResultPerPath(ret.list, dispatched)

\* C8 witness: a scan returned without error the Results of files that could
\* not be acquired (not regular, unreadable, not mappable) and of a file with a
\* positive score
ScanReturnedWithFailedFiles ==
  /\ mainpc = "done" /\ ret.err = NoErr
  /\ \E k \in 1..Len(ret.list) : FS[ret.list[k].path].kind = "special"
  /\ \E k \in 1..Len(ret.list) : ~FS[ret.list[k].path].readable /\ FS[ret.list[k].path].kind = "file"
  /\ \E k \in 1..Len(ret.list) : ~FS[ret.list[k].path].mapOk /\ FS[ret.list[k].path].readable
  /\ \E k \in 1..Len(ret.list) : ret.list[k].score > 0

\* C9 as stated: every Result has Smelly = (Score >= Threshold).
SmellyIffScoreAtLeastThreshold ==
  \A r \in Produced : r.smelly = (r.score >= scn.cfg.threshold)

\* the file at the path was not analysed: not acquired, binary or oversized
IsRejected(path) == AcquisitionFails(path) \/ IsBinary(path) \/ IsOversized(path)

\* C9 amended: the Result of every file whose content was analysed has
\* Smelly = (Score >= Threshold), boundary included, for every threshold; the
\* Result of a rejected file has score 0 and Smelly false, so that it satisfies
\* the equation exactly when the threshold is positive.
SmellyIffThresholdWhenAnalysed ==
  \A r \in Produced :
    IF IsRejected(r.path)
    THEN /\ r.score = 0 /\ r.smelly = FALSE
         /\ (r.smelly = (r.score >= scn.cfg.threshold)) = (scn.cfg.threshold > 0)
    ELSE r.smelly = (r.score >= scn.cfg.threshold)

\* C9 witness: a Result whose score equals the threshold and is smelly
ScoreAtThresholdIsSmelly ==
  \E k \in 1..Len(results) :
    /\ ~IsRejected(results[k].path)
    /\ results[k].score = scn.cfg.threshold
    /\ results[k].score > 0
    /\ results[k].smelly

\* rule r contributes to the score of the content: it applies to the extension,
\* occurs, and passes its thresholds
Contributes(r, fileExt, data) ==
  /\ appliesToExt(r, fileExt)
  /\ countPattern(data, r.pattern) >= 1
  /\ passesThresholds(r, countPattern(data, r.pattern), Size(data))

\* the sum of count x weight over the contributing rules among the first n
RECURSIVE contribution(_, _, _, _)
contribution(rs, n, fileExt, data) ==
  IF n = 0 THEN 0
  ELSE contribution(rs, n - 1, fileExt, data)
       + (IF Contributes(rs[n], fileExt, data)
          THEN countPattern(data, rs[n].pattern) * rs[n].weight ELSE 0)

\* the thresholds a scan is compared under
Thresholds == {-1, 0, 1, 30, 31}

\* C10: the score of an analysed file is the sum of count x weight over the
\* rules that apply to its extension, occur and pass their thresholds, its detail
\* names exactly those rules, and under any other threshold analyse gives the
\* same score and detail, Smelly alone following the threshold.
ScoreIsSumOverPassingRules ==
  \A r \in Produced :
    \E path \in {r.path} :
      ~IsRejected(path) =>
        /\ r.score = contribution(rules, Len(rules), Ext(path), FS[path])
        /\ DOMAIN r.detail =
             {rules[n].name : n \in {m \in 1..Len(rules) : Contributes(rules[m], Ext(path), FS[path])}}
        /\ \A t \in Thresholds :
             \E other \in {evaluate(path, FS[path], rules, [scn.cfg EXCEPT !.threshold = t])} :
               /\ other.score = r.score
               /\ other.detail = r.detail
               /\ other.smelly = (r.score >= t)

\* C10 witness: a Result to which a rule of negative weight contributed, for a
\* content in which another rule occurs without passing its thresholds
NegativeWeightAndFailedThreshold ==
  \E k \in 1..Len(results) : \E path \in {results[k].path} :
    /\ ~IsRejected(path)
    /\ \E n \in 1..Len(rules) : rules[n].weight < 0 /\ Contributes(rules[n], Ext(path), FS[path])
    /\ \E n \in 1..Len(rules) :
         /\ appliesToExt(rules[n], Ext(path))
         /\ countPattern(FS[path], rules[n].pattern) >= 1
         /\ ~Contributes(rules[n], Ext(path), FS[path])
    /\ results[k].score # 0

\* the rule occurs in no dispatched file
OccursNowhere(r) ==
  \A k \in 1..Len(dispatched) :
    IsRejected(dispatched[k]) \/ countPattern(FS[dispatched[k]], r.pattern) = 0

\* C11: every entry of a Result's Detail is a loaded rule that applies to the
\* file's extension, occurs at least once in the file and passes its minCount
\* and minPercent; the entry's Count is the number of occurrences; a rule that
\* occurs in no scanned file is in no returned Detail.
DetailHoldsOnlyPassingRules ==
  /\ \A r \in Produced : \A n \in DOMAIN r.detail :
       \E hit \in {r.detail[n]} :
         /\ \E k \in 1..Len(rules) : rules[k] = hit.rule
         /\ hit.rule.name = n
         /\ appliesToExt(hit.rule, Ext(r.path))
         /\ hit.count = countPattern(FS[r.path], hit.rule.pattern)
         /\ hit.count >= 1
         /\ passesThresholds(hit.rule, hit.count, Size(FS[r.path]))
  /\ mainpc = "done" =>
       \A k \in 1..Len(rules) :
         OccursNowhere(rules[k]) =>
           \A j \in 1..Len(ret.list) : \A n \in DOMAIN ret.list[j].detail :
             ret.list[j].detail[n].rule # rules[k]

\* C11 witness: a returned Result has a Detail, although a rule that occurs in
\* the file does not apply to its extension and another loaded rule occurs in
\* no scanned file
DetailWithoutExcludedRules ==
  /\ mainpc = "done"
  /\ \E j \in 1..Len(ret.list) : \E path \in {ret.list[j].path} :
       /\ DOMAIN ret.list[j].detail # {}
       /\ \E k \in 1..Len(rules) :
            ~appliesToExt(rules[k], Ext(path)) /\ countPattern(FS[path], rules[k].pattern) >= 1
  /\ \E k \in 1..Len(rules) : OccursNowhere(rules[k])

(***************************************************************************)
(* Functions called on their own: a call records the function, its         *)
(* arguments and what it returned.                                         *)
(***************************************************************************)
scanVars == <<scn, mainpc, rules, results, ret, walker, jobChannels, jobClosed, worker,
              mmapGate, resultsChan, resultsClosed, closerpc, walkerErrorChan, dispatched>>

\* what a call ended with: a returned value, or a panic
Returned(v) == [panicked |-> FALSE, result |-> v]
Panicked == [panicked |-> TRUE, result |-> <<>>]

\* analyse of scanner.go: os.Stat, the early return, os.ReadFile, the binary
\* check and the rules; on a failed Stat the arguments of the debug Printf of
\* the early return call info.Size() on a nil FileInfo
analyseStatFirst(path, rs, cfg) ==
  IF ~Exists(path) THEN Panicked
  ELSE IF FS[path].kind # "file" \/ Size(FS[path]) > cfg.maxSize THEN Returned(ZeroResult(path))
  ELSE IF ~FS[path].readable \/ HasZero(FS[path]) THEN Returned(ZeroResult(path))
  ELSE LET out == ruleLoop(rs, 1, Ext(path), FS[path], [score |-> 0, detail |-> <<>>])
       IN Returned(MkResult(path, out.score, out.detail, out.score >= cfg.threshold))

\* the paths, rule lists and configurations analyse is called with
AnalysePaths ==
  { PAmd, Join(PT, <<98>>), Join(PSub, NCmd), Join(PX, <<99>>), Join(PX, <<101>>),
    Join(PX, <<112>>), Join(PX, <<113>>), PMissing }
AnalyseRules == { baseRules, baseRules \o DictRules }
AnalyseCfgs == { MkCfg(<<>>, t, m, 1) : t \in {0, 30}, m \in {-1, 0, 5, BigPad} }

\* analyse(path, rules, cfg) of the mmap-based scanner
CallAnalyse ==
  /\ call = NoCall
  /\ \E path \in AnalysePaths, rs \in AnalyseRules, cfg \in AnalyseCfgs :
       call' = [fn |-> "analyse", in |-> [path |-> path, rules |-> rs, cfg |-> cfg],
                out |-> Returned(analyseResult(path, rs, cfg))]
  /\ UNCHANGED <<scanVars, patterns, LoadedIgnoreFiles, wdScan>>

\* analyse(path, rules, cfg) of scanner.go
CallAnalyseStatFirst ==
  /\ call = NoCall
  /\ \E path \in AnalysePaths, rs \in AnalyseRules, cfg \in AnalyseCfgs :
       call' = [fn |-> "analyseStatFirst", in |-> [path |-> path, rules |-> rs, cfg |-> cfg],
                out |-> analyseStatFirst(path, rs, cfg)]
  /\ UNCHANGED <<scanVars, patterns, LoadedIgnoreFiles, wdScan>>

\* no scan is running: the scan variables rest
InitCalls == InitWith({MkScn(<<PT>>, MkCfg(<<>>, 30, 0, 1), 1)})

ExtTxt == <<46, 116, 120, 116>>
ExtGo == <<46, 103, 111>>

\* the rules and file extensions appliesToExt is called with; <<>> is the
\* extension of a file name without a dot
ExtRules ==
  { MkRule("test", WordPattern, 1, 0, 0, x, xs) :
      x \in {<<>>, ExtMd}, xs \in {<<>>, <<ExtTxt>>, <<ExtMd, ExtTxt>>} }
FileExts == { <<>>, ExtMd, ExtTxt, ExtGo, <<46, 77, 68>> }

\* r.appliesToExt(ext)
CallAppliesToExt ==
  /\ call = NoCall
  /\ \E r \in ExtRules, ext \in FileExts :
       call' = [fn |-> "appliesToExt", in |-> [rule |-> r, ext |-> ext],
                out |-> [applies |-> appliesToExt(r, ext)]]
  /\ UNCHANGED <<scanVars, patterns, LoadedIgnoreFiles, wdScan>>

\* the rules, counts and content lengths passesThresholds is called with
ThresholdRules ==
  { MkRule("test", WordPattern, 1, c, p, <<>>, <<>>) : c \in {-1, 0, 3}, p \in {-1, 0, 2, 10} }
Counts == {0, 1, 2, 3, 5}
FileLens == {0, 3, 50, 100}

\* r.passesThresholds(count, fileLen)
CallPassesThresholds ==
  /\ call = NoCall
  /\ \E r \in ThresholdRules, count \in Counts, fileLen \in FileLens :
       call' = [fn |-> "passesThresholds", in |-> [rule |-> r, count |-> count, fileLen |-> fileLen],
                out |-> [passes |-> passesThresholds(r, count, fileLen)]]
  /\ UNCHANGED <<scanVars, patterns, LoadedIgnoreFiles, wdScan>>

NextCalls ==
  \/ CallAnalyse
  \/ CallAnalyseStatFirst
  \/ CallAppliesToExt
  \/ CallPassesThresholds

\* one function called on its own
SpecCalls == InitCalls /\ [][NextCalls]_vars

\* the ignore rules: files are loaded into the table and paths are asked about
MaxStored == 2
RECURSIVE SumLens(_, _)
SumLens(table, dirs) ==
  IF dirs = {} THEN 0
  ELSE LET d == CHOOSE x \in dirs : TRUE
       IN Len(table[d]) + SumLens(table, dirs \ {d})
TableSize(table) == SumLens(table, DOMAIN table)
\* every readable ignore file under the relative directories, two of them
\* under the rooted ones, and the files that fail
IgnoreLoads ==
  ({Join(PIg, n) : n \in DOMAIN IgnoreTexts} \X {PDot, PParent, PChild})
  \cup ({Join(PIg, <<97>>), Join(PIg, <<98>>)} \X {PRoot, <<47>> \o PParent})
  \cup ({Join(PIg, <<107>>), Join(PIg, <<117>>), PIg, PMissing} \X {PDot})
IgnoreQueries ==
  { PImportantLog, POtherLog, POnlyLog, PChild, PLogs, NOnlyLog, Join(PLogs, NOtherLog),
    <<47>> \o POnlyLog, <<46, 47>> \o PParent \o <<47, 47>> \o NOnlyLog }

CallLoadGitignoreFile ==
  /\ TableSize(patterns) < MaxStored
  /\ \E load \in IgnoreLoads : \E path \in {load[1]}, baseDir \in {load[2]} :
       \E res \in {LoadGitignoreFile(patterns, path, baseDir)} :
         /\ patterns' = res.patterns
         /\ call' = [fn |-> "LoadGitignoreFile",
                     in |-> [path |-> path, baseDir |-> baseDir, before |-> patterns],
                     out |-> [err |-> res.err]]
  /\ UNCHANGED <<scanVars, LoadedIgnoreFiles, wdScan>>

\* mutant of CallShouldIgnore: a query that answers "ignored" leaves a
\* negated catch-all pattern behind in the list of "."
CallShouldIgnoreStores ==
  /\ \E path \in IgnoreQueries : \E v \in {ShouldIgnore(patterns, path)} :
       /\ call' = [fn |-> "ShouldIgnore", in |-> [path |-> path], out |-> [ignored |-> v]]
       /\ patterns' = IF v THEN [patterns EXCEPT ![PDot] = Append(@, MkPattern(<<42>>, TRUE, FALSE, FALSE))]
                       ELSE patterns
  /\ UNCHANGED <<scanVars, LoadedIgnoreFiles, wdScan>>

\* ShouldIgnore(filePath) on the table as it is
CallShouldIgnore ==
  /\ \E path \in IgnoreQueries :
       call' = [fn |-> "ShouldIgnore", in |-> [path |-> path],
                out |-> [ignored |-> ShouldIgnore(patterns, path)]]
  /\ UNCHANGED <<scanVars, patterns, LoadedIgnoreFiles, wdScan>>

\* building the table: whole trees and custom ignore files
MaxBuilt == 2
BuildRoots ==
  { PParent, PChild, Join(PParent, NGitignore), POnlyLog, PG, Join(PG, <<110>>), PT, PMissing }
CustomFiles == { Join(PIg, <<97>>), Join(PIg, <<117>>), Join(PParent, NGitignore), PMissing }

CallFindAndLoadGitignores ==
  /\ TableSize(patterns) < MaxBuilt
  /\ \E rootDir \in BuildRoots :
       \E res \in {FindAndLoadGitignores(patterns, LoadedIgnoreFiles, rootDir)} :
         /\ patterns' = res.patterns
         /\ LoadedIgnoreFiles' = res.loaded
         /\ call' = [fn |-> "FindAndLoadGitignores",
                     in |-> [rootDir |-> rootDir, before |-> patterns,
                             loadedBefore |-> LoadedIgnoreFiles],
                     out |-> [err |-> res.err]]
  /\ UNCHANGED <<scanVars, wdScan>>

CallLoadCustomIgnoreFile ==
  /\ TableSize(patterns) < MaxBuilt
  /\ \E path \in CustomFiles :
       \E res \in {LoadCustomIgnoreFile(patterns, path)} :
         /\ patterns' = res.patterns
         /\ call' = [fn |-> "LoadCustomIgnoreFile",
                     in |-> [path |-> path, before |-> patterns,
                             loadedBefore |-> LoadedIgnoreFiles],
                     out |-> [err |-> res.err]]
  /\ UNCHANGED <<scanVars, LoadedIgnoreFiles, wdScan>>

NextBuild == CallFindAndLoadGitignores \/ CallLoadCustomIgnoreFile \/ CallLoadGitignoreFile
SpecBuild == InitCalls /\ [][NextBuild]_vars

NextIgnore == CallLoadGitignoreFile \/ CallShouldIgnore

\* the caller runs Scan a second time with the same arguments once the first
\* call returned: every local of Scan is made anew, the package-level
\* mmapGate is the one the first call used; call keeps what the first call
\* returned and the rules it ran with
ScanAgain ==
  /\ mainpc = "done"
  /\ call = NoCall
  /\ call' = [fn |-> "Scan", in |-> scn, out |-> [first |-> ret, rules |-> rules]]
  /\ mainpc' = "start"
  /\ rules' = <<>>
  /\ results' = <<>>
  /\ ret' = NoRet
  /\ walker' = idleWalker
  /\ jobChannels' = [i \in Workers |-> <<>>]
  /\ jobClosed' = [i \in Workers |-> 0]
  /\ worker' = [i \in Workers |-> idleWorker]
  /\ resultsChan' = <<>>
  /\ resultsClosed' = 0
  /\ closerpc' = "idle"
  /\ walkerErrorChan' = <<>>
  /\ dispatched' = <<>>
  /\ UNCHANGED <<scn, mmapGate, patterns, LoadedIgnoreFiles, wdScan>>

\* ---- the single-queue Scan of scanner.go ----

\* the callback Scan gives to filepath.WalkDir, on a walk state that collects
\* the paths it sends to jobs
scanCallback(st, path, e) ==
  IF e # NoErr THEN [st EXCEPT !.end = "err", !.err = e]
  ELSE IF FS[path].kind = "dir"
       THEN IF filepathBase(path) = NGit THEN [st EXCEPT !.end = "skip"] ELSE st
  ELSE [st EXCEPT !.paths = Append(@, path)]

\* the entries of a directory as paths, in the order of their names
entryPaths(path) == [k \in 1..Len(FS[path].entries) |-> Join(path, FS[path].entries[k])]

\* filepath.WalkDir after the first callback on path returned st1: on to the
\* next path after SkipDir or a file, the callback a second time with the
\* error on a directory that cannot be listed, else into the entries
walkDirStep(st1, path, rest) ==
  IF st1.end = "err" THEN [st |-> st1, todo |-> <<>>]
  ELSE IF st1.end = "skip" THEN [st |-> [st1 EXCEPT !.end = "nil"], todo |-> rest]
  ELSE IF FS[path].kind # "dir" THEN [st |-> st1, todo |-> rest]
  ELSE IF ~FS[path].listable
       THEN [st |-> [st1 EXCEPT !.end = "err", !.err = MkErr("readdir", path)], todo |-> <<>>]
  ELSE [st |-> st1, todo |-> entryPaths(path) \o rest]

\* filepath.WalkDir over the paths still to visit, the next one first
RECURSIVE walkDir(_, _)
walkDir(st, todo) ==
  IF todo = <<>> THEN st
  ELSE CHOOSE out \in
         {walkDir(n.st, n.todo) :
            n \in {walkDirStep(scanCallback(st, Head(todo), NoErr), Head(todo), Tail(todo))}} :
         TRUE

\* filepath.WalkDir(root, callback): the paths sent and the error returned
walkDirResult(st) == [paths |-> st.paths, err |-> IF st.end = "err" THEN st.err ELSE NoErr]

WalkDirOf(root) ==
  walkDirResult(IF ~Exists(root)
                THEN scanCallback([paths |-> <<>>, end |-> "nil", err |-> NoErr], root,
                                  MkErr("lstat", root))
                ELSE walkDir([paths |-> <<>>, end |-> "nil", err |-> NoErr], <<root>>))

wdWorkers == 1..wdScan.workers

\* Scan up to the start of its goroutines (scanner.go:32-59)
WdScanStart ==
  /\ wdScan.pc = "idle"
  /\ LET l == LoadRules(scn.cfg.dictPath)
         n == IF scn.cfg.workers <= 0 THEN scn.ncpu ELSE scn.cfg.workers
     IN wdScan' =
          IF l.err # NoErr
          THEN [wdScan EXCEPT !.pc = "done", !.ret = [list |-> <<>>, err |-> l.err]]
          ELSE [wdScan EXCEPT !.pc = "collect", !.rules = l.rules, !.workers = n,
                              !.wpc = [i \in 1..n |-> "recv"],
                              !.wres = [i \in 1..n |-> ZeroResult(<<>>)],
                              !.closer = "wait", !.walkerpc = "roots"]
  /\ UNCHANGED <<scanVars, patterns, LoadedIgnoreFiles, call>>

\* the walker starts the walk of the next root, or leaves the loop
WdWalkRoot ==
  /\ wdScan.walkerpc = "roots"
  /\ wdScan' =
       IF wdScan.ri > Len(scn.roots) THEN [wdScan EXCEPT !.walkerpc = "close"]
       ELSE LET w == WalkDirOf(scn.roots[wdScan.ri])
            IN [wdScan EXCEPT !.walkerpc = "send", !.queue = w.paths, !.rootErr = w.err]
  /\ UNCHANGED <<scanVars, patterns, LoadedIgnoreFiles, call>>

\* jobs <- job{p}: blocks while the queue is full
WdWalkSend ==
  /\ wdScan.walkerpc = "send"
  /\ wdScan.queue # <<>>
  /\ Len(wdScan.jobs) < wdScan.workers
  /\ wdScan' = [wdScan EXCEPT !.jobs = Append(@, Head(wdScan.queue)), !.queue = Tail(@)]
  /\ UNCHANGED <<scanVars, patterns, LoadedIgnoreFiles, call>>

\* mutant of WdWalkRootEnd: the walker closes jobs before it reports the error
WdWalkRootEndCloses ==
  /\ wdScan.walkerpc = "send"
  /\ wdScan.queue = <<>>
  /\ wdScan' =
       IF wdScan.rootErr # NoErr
       THEN [wdScan EXCEPT !.errCh = Append(@, wdScan.rootErr), !.walkerpc = "done",
                           !.jobsClosed = TRUE]
       ELSE [wdScan EXCEPT !.ri = @ + 1, !.walkerpc = "roots"]
  /\ UNCHANGED <<scanVars, patterns, LoadedIgnoreFiles, call>>

\* WalkDir returned: on an error the walker sends it on errCh and returns
\* (scanner.go:73-76), else it goes to the next root
WdWalkRootEnd ==
  /\ wdScan.walkerpc = "send"
  /\ wdScan.queue = <<>>
  /\ wdScan' =
       IF wdScan.rootErr # NoErr
       THEN [wdScan EXCEPT !.errCh = Append(@, wdScan.rootErr), !.walkerpc = "done"]
       ELSE [wdScan EXCEPT !.ri = @ + 1, !.walkerpc = "roots"]
  /\ UNCHANGED <<scanVars, patterns, LoadedIgnoreFiles, call>>

\* close(jobs) after the last root
WdWalkClose ==
  /\ wdScan.walkerpc = "close"
  /\ wdScan' = [wdScan EXCEPT !.jobsClosed = TRUE, !.walkerpc = "report"]
  /\ UNCHANGED <<scanVars, patterns, LoadedIgnoreFiles, call>>

\* errCh <- nil
WdWalkReport ==
  /\ wdScan.walkerpc = "report"
  /\ wdScan' = [wdScan EXCEPT !.errCh = Append(@, NoErr), !.walkerpc = "done"]
  /\ UNCHANGED <<scanVars, patterns, LoadedIgnoreFiles, call>>

\* a worker takes a job and analyses it, or leaves its loop once jobs is
\* closed and empty; a panic of analyse ends the process
WdWorkerRecv(i) ==
  /\ wdScan.pc # "crashed"
  /\ wdScan.wpc[i] = "recv"
  /\ IF wdScan.jobs # <<>>
     THEN \E a \in {analyseStatFirst(Head(wdScan.jobs), wdScan.rules, scn.cfg)} :
            wdScan' = IF a.panicked THEN [wdScan EXCEPT !.pc = "crashed", !.jobs = Tail(@)]
                      ELSE [wdScan EXCEPT !.jobs = Tail(@), !.wres[i] = a.result,
                                          !.wpc[i] = "send"]
     ELSE /\ wdScan.jobsClosed
          /\ wdScan' = [wdScan EXCEPT !.wpc[i] = "exited"]
  /\ UNCHANGED <<scanVars, patterns, LoadedIgnoreFiles, call>>

\* out <- result: blocks while out is full
WdWorkerSend(i) ==
  /\ wdScan.pc # "crashed"
  /\ wdScan.wpc[i] = "send"
  /\ Len(wdScan.out) < wdScan.workers
  /\ wdScan' = [wdScan EXCEPT !.out = Append(@, wdScan.wres[i]), !.wpc[i] = "recv"]
  /\ UNCHANGED <<scanVars, patterns, LoadedIgnoreFiles, call>>

\* wg.Wait(); close(out)
WdCloseOut ==
  /\ wdScan.closer = "wait"
  /\ \A i \in wdWorkers : wdScan.wpc[i] = "exited"
  /\ wdScan' = [wdScan EXCEPT !.outClosed = TRUE, !.closer = "done"]
  /\ UNCHANGED <<scanVars, patterns, LoadedIgnoreFiles, call>>

\* for r := range out
WdCollect ==
  /\ wdScan.pc = "collect"
  /\ IF wdScan.out # <<>>
     THEN wdScan' = [wdScan EXCEPT !.results = Append(@, Head(wdScan.out)), !.out = Tail(@)]
     ELSE /\ wdScan.outClosed
          /\ wdScan' = [wdScan EXCEPT !.pc = "waitErr"]
  /\ UNCHANGED <<scanVars, patterns, LoadedIgnoreFiles, call>>

\* <-errCh, the sort and the return
WdReturn ==
  /\ wdScan.pc = "waitErr"
  /\ wdScan.errCh # <<>>
  /\ wdScan' = [wdScan EXCEPT
                  !.errCh = Tail(@), !.pc = "done",
                  !.ret = IF Head(wdScan.errCh) # NoErr
                          THEN [list |-> <<>>, err |-> Head(wdScan.errCh)]
                          ELSE [list |-> sortByPath(wdScan.results), err |-> NoErr]]
  /\ UNCHANGED <<scanVars, patterns, LoadedIgnoreFiles, call>>

\* root lists for the single-queue Scan: a tree that walks to its end, a
\* missing root alone and after a root with a file, a dictionary that cannot
\* be parsed
WdScns ==
  { MkScn(r, MkCfg(<<>>, 30, BigPad, w), 2) :
      r \in {<<PT>>, <<PMissing>>, <<Join(PT, <<98>>), PMissing>>}, w \in 0..2 }
  \cup { MkScn(<<PT>>, MkCfg(PBadDict, 30, BigPad, 1), 1) }

NextWd ==
  \/ WdScanStart
  \/ WdWalkRoot
  \/ WdWalkSend
  \/ WdWalkRootEnd
  \/ WdWalkClose
  \/ WdWalkReport
  \/ \E i \in wdWorkers : WdWorkerRecv(i)
  \/ \E i \in wdWorkers : WdWorkerSend(i)
  \/ WdCloseOut
  \/ WdCollect
  \/ WdReturn

SpecWd == InitWith(WdScns) /\ [][NextWd]_vars
\* every goroutine that can take a step eventually takes one
FairSpecWd == SpecWd /\ WF_vars(NextWd)

\* ---- Render and the exit code of main ----

\* mutant of anySmelly: only the first Result is looked at
anySmellyFirst(rs) == rs # <<>> /\ rs[1].smelly

RECURSIVE anySmelly(_)
anySmelly(rs) ==
  IF rs = <<>> THEN FALSE
  ELSE IF Head(rs).smelly THEN TRUE
  ELSE anySmelly(Tail(rs))

\* the line the loop of Render prints for one Result, if any
renderLine(r, mode) ==
  IF mode.ultraVerbose THEN <<[print |-> "ultra", path |-> r.path]>>
  ELSE IF mode.veryVerbose THEN <<[print |-> "very", path |-> r.path]>>
  ELSE IF mode.verbose /\ r.smelly THEN <<[print |-> "smellyCounts", path |-> r.path]>>
  ELSE IF r.smelly THEN <<[print |-> "smelly", path |-> r.path]>>
  ELSE <<>>

RECURSIVE renderLoop(_, _)
renderLoop(list, mode) ==
  IF list = <<>> THEN <<>>
  ELSE renderLine(Head(list), mode) \o renderLoop(Tail(list), mode)

printIgnoreFilesReport(useGitignore, loaded) ==
  IF ~useGitignore \/ Len(loaded) = 0 THEN <<>>
  ELSE <<[print |-> "loaded", path |-> <<>>]>>
       \o [k \in 1..Len(loaded) |-> [print |-> "file", path |-> loaded[k]]]

\* renderJSON: the list encoded to stdout, or a message on stderr
renderJSON(list, encodeOk) ==
  [out |-> IF encodeOk THEN <<[print |-> "json", path |-> <<>>]>> ELSE <<>>,
   ret |-> anySmelly(list)]

\* Render(list, cfg): what it prints and what it returns
Render(list, mode, useGitignore, loaded, encodeOk) ==
  IF mode.json THEN renderJSON(list, encodeOk)
  ELSE LET lines == renderLoop(list, mode)
       IN IF mode.ultraVerbose \/ mode.veryVerbose
          THEN [out |-> lines, ret |-> anySmelly(list)]
          ELSE [out |-> lines
                        \o (IF ~anySmelly(list)
                            THEN <<[print |-> "none", path |-> <<>>]>> ELSE <<>>)
                        \o printIgnoreFilesReport(useGitignore, loaded),
                ret |-> anySmelly(list)]

exitSmelly == 1
\* the exit code of log.Fatal
exitFatal == 1

\* the output flags parseFlags reads
RenderModes ==
  [json : BOOLEAN, verbose : BOOLEAN, veryVerbose : BOOLEAN, ultraVerbose : BOOLEAN,
   ciMode : BOOLEAN]

\* main without a path argument: log.Fatal before any scan
MainNoPaths ==
  /\ mainpc = "start"
  /\ call = NoCall
  /\ scn.roots = <<>>
  /\ mainpc' = "done"
  /\ \E mode \in RenderModes :
       call' = [fn |-> "main", in |-> mode,
                out |-> [exit |-> exitFatal, rendered |-> FALSE, render |-> FALSE, printed |-> <<>>]]
  /\ UNCHANGED <<scn, rules, results, ret, walker, jobChannels, jobClosed, worker, mmapGate,
                 resultsChan, resultsClosed, closerpc, walkerErrorChan, dispatched,
                 patterns, LoadedIgnoreFiles, wdScan>>

\* main once Scan returned: log.Fatal on an error, else Render and the exit
MainAfterScan ==
  /\ mainpc = "done"
  /\ call = NoCall
  /\ scn.roots # <<>>
  /\ \E mode \in RenderModes, encodeOk \in BOOLEAN :
       call' =
         IF ret.err # NoErr
         THEN [fn |-> "main", in |-> mode,
               out |-> [exit |-> exitFatal, rendered |-> FALSE, render |-> FALSE, printed |-> <<>>]]
         ELSE LET r == Render(ret.list, mode, scn.cfg.useGitignore, LoadedIgnoreFiles, encodeOk)
              IN [fn |-> "main", in |-> mode,
                  out |-> [exit |-> IF r.ret /\ mode.ciMode THEN exitSmelly ELSE 0,
                           rendered |-> TRUE, render |-> r.ret, printed |-> r.out]]
  /\ UNCHANGED <<scanVars, patterns, LoadedIgnoreFiles, wdScan>>

\* runs of main: no path, a missing path, a tree under several thresholds,
\* a tree with .gitignore files
MainScns ==
  { MkScn(r, MkCfg(<<>>, 30, 0, 1), 1) : r \in {<<>>, <<PMissing>>, <<PT, PSub>>} }
  \cup { MkScn(<<PT>>, MkCfg(<<>>, t, 0, 1), 1) : t \in {0, 31, 1000} }
  \cup GitignoreScns

NextMain ==
  \/ MainNoPaths
  \/ (scn.roots # <<>> /\ Next)
  \/ MainAfterScan

SpecMain == InitWith(MainScns) /\ [][NextMain]_vars

\* scans run twice: files that cannot be acquired, a dictionary, a missing
\* root, a dictionary that cannot be parsed, a directory that fills a batch;
\* one of them with a gate of four
TwiceScns ==
  FailScns \cup RuleFileScns \cup LateErrScns
  \cup { MkScn(<<PX>>, MkCfg(<<>>, 30, 0, 1), 4),
         MkScn(<<Join(PT, <<98>>), PMissing>>, MkCfg(<<>>, 30, 0, 2), 1),
         MkScn(<<PT>>, MkCfg(PBadDict, 30, 0, 1), 1) }

NextTwice == Next \/ ScanAgain
SpecTwice == InitWith(TwiceScns) /\ [][NextTwice]_vars
SpecIgnore == InitCalls /\ [][NextIgnore]_vars

\* the file at the path is a readable, non-empty regular file without zero byte
IsScorable(path) ==
  ~AcquisitionFails(path) /\ FS[path].kind = "file" /\ Size(FS[path]) > 0 /\ ~HasZero(FS[path])

\* the Result the rules give the file at the path, whatever its size
ScoredResult(path, rs, cfg) ==
  LET out == ruleLoop(rs, 1, Ext(path), FS[path], [score |-> 0, detail |-> <<>>])
  IN MkResult(path, out.score, out.detail, out.score >= cfg.threshold)

\* C12: with MaxSize <= 0 neither analyse rejects a file for its size: a
\* non-empty text file gets the Result its content gives, from the mmap-based
\* analyse and from the stat-first analyse of scanner.go.
NonPositiveMaxSizeIsUnlimited ==
  /\ call.fn \in {"analyse", "analyseStatFirst"}
  /\ call.in.cfg.maxSize <= 0
  /\ IsScorable(call.in.path)
  => call.out = Returned(ScoredResult(call.in.path, call.in.rules, call.in.cfg))

\* C13: a rule without extension filter applies to every extension; a rule
\* with a single extension, an extension set or both applies exactly to the
\* extensions equal to the single extension that was set or in the set, also
\* when the file has no extension.
AppliesIffExtensionMatches ==
  call.fn = "appliesToExt" =>
    LET r == call.in.rule
        ext == call.in.ext
    IN call.out.applies =
         \/ r.ext = <<>> /\ r.exts = <<>>
         \/ r.ext # <<>> /\ ext = r.ext
         \/ \E k \in 1..Len(r.exts) : r.exts[k] = ext

\* C14: passesThresholds is false exactly when minCount is set and the count
\* is below it, or when minPercent > 0, the length is > 0 and the percentage
\* 100*count/length is below minPercent; with length 0 the percent check
\* passes; both thresholds must pass.
ThresholdsRejectExactlyBelow ==
  call.fn = "passesThresholds" =>
    LET r == call.in.rule
        count == call.in.count
        len == call.in.fileLen
        countFails == r.minCount > 0 /\ count < r.minCount
        percentFails == r.minPercent > 0 /\ len > 0 /\ (100 * count) \div len < r.minPercent
    IN /\ call.out.passes = ~(countFails \/ percentFails)
       /\ len = 0 /\ ~countFails => call.out.passes

\* C14 witness: passesThresholds accepted a percentage equal to MinPercent, the
\* count reaching MinCount
BoundaryPercentPasses ==
  /\ call.fn = "passesThresholds"
  /\ call.in.rule.minCount > 0 /\ call.in.count >= call.in.rule.minCount
  /\ call.in.rule.minPercent > 0 /\ call.in.fileLen > 0
  /\ 100 * call.in.count = call.in.rule.minPercent * call.in.fileLen
  /\ call.out.passes

\* d is a directory named .git that the walk finds below a root
IsGitDirBelowRoot(d) ==
  /\ Exists(d) /\ FS[d].kind = "dir"
  /\ \E k \in 1..Len(scn.roots) : \E dirs \in {SplitFrom(d, 1, <<>>)} :
       /\ IsUnder(d, Clean(scn.roots[k]))
       /\ dirs[Len(dirs)] = NGit

\* p lies in a directory named .git that the walk finds below a root
InGitDir(p) ==
  \E k \in 1..Len(p) : p[k] = 47 /\ IsGitDirBelowRoot(SubSeq(p, 1, k - 1))

\* C15: no file in a .git directory found below a root is dispatched or gets a
\* Result, and the walker neither queues nor lists such a directory.
GitDirectoriesSkipped ==
  /\ \A k \in 1..Len(dispatched) : ~InGitDir(dispatched[k])
  /\ \A i \in Workers : \A k \in 1..Len(walker.currentBatches[i]) :
       ~InGitDir(walker.currentBatches[i][k])
  /\ \A r \in Produced : ~InGitDir(r.path)
  /\ \A k \in 1..Len(walker.dirQueue) :
       ~IsGitDirBelowRoot(walker.dirQueue[k]) /\ ~InGitDir(walker.dirQueue[k])
  /\ walker.dir # <<>> => ~IsGitDirBelowRoot(walker.dir) /\ ~InGitDir(walker.dir)

\* C15 witness: a scan of a root that holds a .git directory with a file in it
\* returned the Results of the other files
ScannedRootWithGitDir ==
  /\ mainpc = "done" /\ ret.err = NoErr
  /\ Len(ret.list) > 0
  /\ \E k \in 1..Len(scn.roots) :
       /\ IsGitDirBelowRoot(Join(scn.roots[k], NGit))
       /\ \E p \in DOMAIN FS : FS[p].kind = "file" /\ IsUnder(p, Join(scn.roots[k], NGit))

\* C16: no dispatched file, given as a root or found in a directory, is the
\* dictionary (by cleaned path), or has the extension .yaml, .yml or .json and
\* a content with both "pattern" and "weight".
NoRuleFileDispatched ==
  \A k \in 1..Len(dispatched) : \E p \in {dispatched[k]} :
    /\ ~(scn.cfg.dictPath # <<>> /\ Clean(p) = Clean(scn.cfg.dictPath))
    /\ ~(/\ Ext(p) \in {ExtYaml, ExtYml, ExtJson}
         /\ FS[p].kind = "file" /\ FS[p].readable
         /\ Contains(FS[p].body, WordPattern) /\ Contains(FS[p].body, WordWeight))

\* the directories whose lists a query of a cleaned path goes through,
\* outermost first: the current directory, then every directory named by the
\* part of the path that ends before one of its separators
AncestorChain(filePath) ==
  LET cuts == {k \in 2..Len(filePath) : filePath[k] = 47}
      nth(i) == CHOOSE k \in cuts : Cardinality({j \in cuts : j < k}) = i - 1
  IN <<PDot>> \o [i \in 1..Cardinality(cuts) |-> SubSeq(filePath, 1, nth(i) - 1)]

\* the positions <<directory, line>> of the stored patterns that match the path
MatchingPositions(table, path) ==
  LET filePath == Clean(path)
      chain == AncestorChain(filePath)
      all == UNION { {<<i, j>> : j \in 1..Len(PatternsOf(table, chain[i]))} : i \in 1..Len(chain) }
  IN { pos \in all :
         patternMatches(PatternsOf(table, chain[pos[1]])[pos[2]], chain[pos[1]],
                        filePath, IsDirectory(filePath)) }

Later(a, b) == a[1] > b[1] \/ (a[1] = b[1] /\ a[2] >= b[2])

\* the polarity of the last matching pattern; not ignored without a match
LastMatchVerdict(table, path) ==
  LET m == MatchingPositions(table, path)
      chain == AncestorChain(Clean(path))
      last == CHOOSE a \in m : \A b \in m : Later(a, b)
  IN m # {} /\ ~PatternsOf(table, chain[last[1]])[last[2]].Negate

\* the table of the example: *.log in parent, !important.log in parent/child
ExampleTable ==
  [NewIgnoreRules EXCEPT ![PParent] = <<MkPattern(LStarLog, FALSE, FALSE, FALSE)>>,
                         ![PChild] = <<MkPattern(NImportantLog, TRUE, FALSE, FALSE)>>]

\* C17: ShouldIgnore returns the polarity of the last matching pattern, the
\* lists taken from the outermost directory down to the path's parent and each
\* list in file order, and not-ignored without a match; with *.log in parent
\* and !important.log in child, child/important.log is not ignored,
\* child/other.log and parent/only.log are.
LastMatchingPatternDecides ==
  call.fn = "ShouldIgnore" =>
    /\ call.out.ignored = LastMatchVerdict(patterns, call.in.path)
    /\ patterns = ExampleTable =>
         /\ call.in.path = PImportantLog => ~call.out.ignored
         /\ call.in.path \in {POtherLog, POnlyLog} => call.out.ignored

\* C17 witness: the child's negation overrode the parent's pattern
ChildNegationOverridesParent ==
  /\ call.fn = "ShouldIgnore" /\ call.in.path = PImportantLog
  /\ patterns = ExampleTable
  /\ Cardinality(MatchingPositions(patterns, call.in.path)) = 2
  /\ ~call.out.ignored

\* the table holds one pattern in all, in the list of directory d
OnlyPattern(table, d) ==
  /\ d \in DOMAIN table /\ Len(table[d]) = 1
  /\ \A e \in DOMAIN table \ {d} : table[e] = <<>>

\* the query of call went through the single, plain pattern of directory d:
\* not anchored, not negated, and not a directory-only pattern asked about a
\* file
AskedPlainPattern(d) ==
  /\ call.fn = "ShouldIgnore"
  /\ OnlyPattern(patterns, d)
  /\ \E k \in 1..Len(AncestorChain(Clean(call.in.path))) : AncestorChain(Clean(call.in.path))[k] = d
  /\ ~patterns[d][1].Root /\ ~patterns[d][1].Negate
  /\ patterns[d][1].Directory => IsDirectory(Clean(call.in.path))
  /\ ~filepathRel(d, call.in.path).err

\* the single pattern of directory d matches the queried path relative to d
PathMatches(d) == matchGlob(patterns[d][1].Pattern, filepathRel(d, call.in.path).path)

\* the single pattern of directory d matches the basename of the queried path
NameMatches(d) == matchGlob(patterns[d][1].Pattern, filepathBase(Clean(call.in.path)))

\* C18 as stated: a pattern that is not anchored matches a file or a directory
\* if it matches the path relative to the ignore file's directory or the
\* basename.
PlainPatternTriesPathAndName ==
  \A d \in IgnoreDirs :
    AskedPlainPattern(d) => (call.out.ignored <=> PathMatches(d) \/ NameMatches(d))

\* C18 amended: a pattern that is not anchored matches a directory if it
\* matches the relative path or the basename, and a file if it matches the
\* basename.
PlainPatternTriesNameAndForDirsPath ==
  \A d \in IgnoreDirs :
    AskedPlainPattern(d) =>
      (call.out.ignored <=>
         NameMatches(d) \/ (IsDirectory(Clean(call.in.path)) /\ PathMatches(d)))

\* C18 witness: a file whose relative path matches the pattern and whose name
\* does not was not ignored
FileMatchedByPathOnly ==
  \E d \in IgnoreDirs :
    /\ AskedPlainPattern(d)
    /\ ~IsDirectory(Clean(call.in.path))
    /\ PathMatches(d) /\ ~NameMatches(d)
    /\ ~call.out.ignored

\* the table without its directory-only patterns
WithoutDirectoryPatterns(table) ==
  [d \in DOMAIN table |-> SelectSeq(table[d], LAMBDA pat : ~pat.Directory)]

\* C19: for a path that is not a directory, the verdict is the one the table
\* without its directory-only patterns gives, negated or not.
DirectoryPatternsLeaveFilesAlone ==
  (call.fn = "ShouldIgnore" /\ ~IsDirectory(Clean(call.in.path))) =>
    call.out.ignored = ShouldIgnore(WithoutDirectoryPatterns(patterns), call.in.path)

\* C19 witness: a file stayed ignored although a negated directory-only
\* pattern whose text matches its name was in a list the query went through
FileKeptVerdictUnderDirectoryPattern ==
  /\ call.fn = "ShouldIgnore" /\ ~IsDirectory(Clean(call.in.path))
  /\ call.out.ignored
  /\ \E k \in 1..Len(AncestorChain(Clean(call.in.path))) :
       \E d \in {AncestorChain(Clean(call.in.path))[k]} :
         \E n \in 1..Len(PatternsOf(patterns, d)) :
           /\ patterns[d][n].Directory /\ patterns[d][n].Negate /\ ~patterns[d][n].Root
           /\ matchGlob(patterns[d][n].Pattern, filepathBase(Clean(call.in.path)))

\* the line a stored pattern stands for: "!" if negated, "/" if anchored, the
\* pattern text, "/" if directory-only
LineOf(pat) ==
  (IF pat.Negate THEN <<33>> ELSE <<>>) \o (IF pat.Root THEN <<47>> ELSE <<>>)
    \o pat.Pattern \o (IF pat.Directory THEN <<47>> ELSE <<>>)

\* pat is what the line says: it stands for the line, and a flag that is not
\* set has no mark left in its place
Parsed(line, pat) ==
  /\ LineOf(pat) = line
  /\ ~pat.Negate => ~HasPrefix(line, <<33>>)
  /\ ~pat.Root =>
       ~HasPrefix(IF pat.Negate THEN Tail(line) ELSE line, <<47>>)
  /\ ~pat.Directory => ~HasSuffix(pat.Pattern, <<47>>)

\* the lines of an ignore file that are neither empty nor comments
PatternLines(path) ==
  SelectSeq(ScanLines(Content(FS[path])),
            LAMBDA line : line # <<>> /\ line[1] # 35)

RECURSIVE ElemsLess(_, _)
ElemsLess(a, b) ==
  IF b = <<>> THEN FALSE
  ELSE IF a = <<>> THEN TRUE
  ELSE IF Head(a) # Head(b) THEN StrLess(Head(a), Head(b))
  ELSE ElemsLess(Tail(a), Tail(b))

WalkedBefore(a, b) == ElemsLess(PathElems(a), PathElems(b))

\* the .gitignore entries at or below root that lie in no .git directory
IgnoreFilesBelow(root) ==
  { p \in DOMAIN FS :
      /\ p = root \/ IsUnder(p, root)
      /\ filepathBase(p) = NGitignore
      /\ \A k \in 1..Len(p) :
           (p[k] = 47 /\ k > Len(root)) => filepathBase(SubSeq(p, 1, k - 1)) # NGit }

\* a set of paths as a list in walk order
RECURSIVE InWalkOrder(_)
InWalkOrder(paths) ==
  IF paths = {} THEN <<>>
  ELSE LET first == CHOOSE p \in paths : \A q \in paths \ {p} : WalkedBefore(p, q)
       IN <<first>> \o InWalkOrder(paths \ {first})

\* an ignore file that cannot be opened or read to its end
CannotBeLoaded(path) ==
  \/ ~Exists(path)
  \/ FS[path].kind # "file"
  \/ ~FS[path].readable
  \/ ScanFails(FS[path])

\* the table after loading a list of ignore files, each for its directory
RECURSIVE LoadedInTurn(_, _)
LoadedInTurn(table, files) ==
  IF files = <<>> THEN table
  ELSE LoadedInTurn(LoadGitignoreFile(table, Head(files), filepathDir(Head(files))).patterns,
                    Tail(files))

\* C21: a load of a file that cannot be opened or read returns an error and
\* leaves the table as it was; a walk that meets such a file ends with its
\* error, having loaded the ignore files before it and none after it.
FailedLoadStoresNothing ==
  /\ (call.fn \in {"LoadGitignoreFile", "LoadCustomIgnoreFile"} /\ CannotBeLoaded(call.in.path)) =>
       /\ call.out.err # NoErr /\ call.out.err.path = call.in.path
       /\ patterns = call.in.before
  /\ call.fn = "FindAndLoadGitignores" =>
       LET files == InWalkOrder(IgnoreFilesBelow(call.in.rootDir))
           bad == {k \in 1..Len(files) : CannotBeLoaded(files[k])}
           k0 == CHOOSE k \in bad : \A j \in bad : k <= j
       IN (bad # {} /\ call.out.err.op \notin {"lstat", "readdir"}) =>
            /\ call.out.err # NoErr /\ call.out.err.path = files[k0]
            /\ patterns = LoadedInTurn(call.in.before, SubSeq(files, 1, k0 - 1))
            /\ LoadedIgnoreFiles = call.in.loadedBefore \o SubSeq(files, 1, k0 - 1)

\* C21 witness: a walk loaded one ignore file, met one that cannot be opened
\* and ended with its error before reaching a third
WalkStoppedAtUnreadableFile ==
  /\ call.fn = "FindAndLoadGitignores" /\ call.in.rootDir = PG
  /\ call.out.err = MkErr("open", Join(Join(PG, <<109>>), NGitignore))
  /\ Len(LoadedIgnoreFiles) = Len(call.in.loadedBefore) + 1
  /\ Cardinality(IgnoreFilesBelow(PG)) = 3
  /\ patterns[Join(PG, <<110>>)] = <<>>

\* the table the .gitignore files of a list of roots build
RECURSIVE TableOfRoots(_, _)
TableOfRoots(table, roots) ==
  IF roots = <<>> THEN table
  ELSE TableOfRoots(FindAndLoadGitignores(table, <<>>, Head(roots)).patterns, Tail(roots))

\* C22: when the configuration asks to respect .gitignore files, Scan
\* dispatches no path, and returns no Result for a path, that ShouldIgnore
\* reports as ignored.
IgnoredPathsNeverScanned ==
  scn.cfg.useGitignore =>
    \E table \in {TableOfRoots(NewIgnoreRules, scn.roots)} :
      /\ \A k \in 1..Len(dispatched) : ~ShouldIgnore(table, dispatched[k])
      /\ \A k \in 1..Len(ret.list) : ~ShouldIgnore(table, ret.list[k].path)

\* the ignore files a walk of root loads: those in walk order up to the
\* first that cannot be loaded
LoadedByWalk(root) ==
  LET files == InWalkOrder(IgnoreFilesBelow(root))
      bad == {k \in 1..Len(files) : CannotBeLoaded(files[k])}
  IN IF bad = {} THEN files
     ELSE SubSeq(files, 1, (CHOOSE k \in bad : \A j \in bad : k <= j) - 1)

\* C23: after each loading operation LoadedIgnoreFiles is the list before it
\* followed by the files the operation loaded into the table, in load order,
\* and no file is listed twice.
LoadedIgnoreFilesListsLoads ==
  /\ (call.fn = "LoadCustomIgnoreFile" /\ call.out.err = NoErr) =>
       LoadedIgnoreFiles = call.in.loadedBefore \o <<call.in.path>>
  /\ (call.fn = "FindAndLoadGitignores" /\ call.out.err.op \notin {"lstat", "readdir"}) =>
       LoadedIgnoreFiles = call.in.loadedBefore \o LoadedByWalk(call.in.rootDir)
  /\ \A j, k \in 1..Len(LoadedIgnoreFiles) :
       LoadedIgnoreFiles[j] = LoadedIgnoreFiles[k] => j = k

\* C24: a second Scan with the same arguments returns what the first
\* returned, runs with the same rules, and every completed Scan leaves the
\* mapping gate empty and no task of its own behind.
SecondScanRepeatsFirst ==
  mainpc = "done" =>
    /\ mmapGate = 0
    /\ \A i \in Workers : worker[i].pc \in {"idle", "exited"}
    /\ walker.pc \in {"idle", "done"} /\ closerpc \in {"idle", "done"}
    /\ call.fn = "Scan" => (ret = call.out.first /\ rules = call.out.rules)

\* C24 witness: a second scan with a dictionary returned a list with a file
\* that failed to be acquired or a smelly one
SecondScanReturned ==
  /\ mainpc = "done" /\ call.fn = "Scan"
  /\ Len(rules) > Len(baseRules)
  /\ Len(ret.list) > 0 /\ ret = call.out.first

\* C24 witness of a failed scan repeated
SecondScanFailedAgain ==
  /\ mainpc = "done" /\ call.fn = "Scan"
  /\ ret.err # NoErr /\ ret = call.out.first

\* the walk of the single-queue Scan failed
wdWalkFailed == wdScan.walkerpc = "done" /\ wdScan.errCh # <<>> /\ Head(wdScan.errCh) # NoErr

\* C25: in the single-queue Scan a walk error is followed by the closure of
\* jobs, the exit of every worker, the closure of out and the return of that
\* error.
WalkErrorIsReturned ==
  wdWalkFailed ~>
    /\ wdScan.jobsClosed /\ wdScan.outClosed
    /\ \A i \in wdWorkers : wdScan.wpc[i] = "exited"
    /\ wdScan.pc = "done" /\ wdScan.ret.err # NoErr

\* C26: the stat-first analyse never panics, and returns the zero Result for
\* a path that cannot be stat'ed, that is not a regular file or that cannot
\* be read.
StatFirstAnalyseNeverPanics ==
  call.fn = "analyseStatFirst" =>
    /\ ~call.out.panicked
    /\ (\/ ~Exists(call.in.path)
        \/ FS[call.in.path].kind # "file"
        \/ ~FS[call.in.path].readable) => call.out.result = ZeroResult(call.in.path)

\* worker i waits for a token of the mapping gate while the gate is full
WaitsForGate(i) == worker[i].pc \in {"acquire", "unmapAcquire"} /\ mmapGate >= gateCap

\* worker i waits to send a Result while the output queue is full
WaitsForOutput(i) == worker[i].pc = "send" /\ Len(resultsChan) >= resultsChanCap

\* the worker whose full job queue the enumerator waits on, if any
WalkerWaitsOn ==
  { k \in Workers :
      /\ Len(jobChannels[k]) >= jobChanCap
      /\ \/ walker.pc = "send" /\ walker.sendTo = k
         \/ walker.pc = "flush" /\ walker.fi = k /\ Len(walker.currentBatches[k]) > 0 }

\* the files of a scan without error in the order the enumerator meets them,
\* and the workers the round robin gives a path to
EnumeratedFiles ==
  LET IsDirRoot(p) == FS[p].kind = "dir"
      IsFileRoot(p) == FS[p].kind # "dir" /\ ~isDictFile(p)
  IN IF \E k \in 1..Len(scn.roots) : ~Exists(scn.roots[k]) THEN <<>>
     ELSE refWalk(SelectSeq(scn.roots, IsDirRoot), SelectSeq(scn.roots, IsFileRoot)).files

OwnersOf(files, p) ==
  { ((k - 1) % numWorkers) + 1 : k \in {j \in 1..Len(files) : files[j] = p} }

\* C27: no worker waits for a gate token that another worker holds, nor for
\* room in the output queue that another worker's Result takes, and no idle
\* worker is without work while the enumerator waits on another worker's
\* full job queue.
WorkersNeverBlockEachOther ==
  \E files \in {EnumeratedFiles} :
    \A i \in Workers :
      /\ ~(WaitsForGate(i) /\ \E j \in Workers \ {i} : worker[j].tokens > 0)
      /\ ~(/\ WaitsForOutput(i)
           /\ \E k \in 1..Len(resultsChan) :
                OwnersOf(files, resultsChan[k].path) \ {i} # {})
      /\ ~(/\ worker[i].pc = "recv" /\ jobChannels[i] = <<>> /\ jobClosed[i] = 0
           /\ WalkerWaitsOn \ {i} # {})

\* C27 as amended: a worker waits for the gate only when there are more
\* workers than gate tokens, and then a token holder is inside mmapFile or
\* unmapFile, waiting for nothing; a worker that waits for room in the output
\* queue waits for the collecting caller, which is receiving; the worker whose
\* full job queue the enumerator waits on has not left its loop.
WorkersWaitOnlyForRunningTasks ==
  \A i \in Workers :
    /\ WaitsForGate(i) =>
         /\ numWorkers > gateCap
         /\ \E j \in Workers \ {i} : worker[j].tokens > 0 /\ worker[j].pc \in {"mmap", "unmap"}
    /\ WaitsForOutput(i) => mainpc = "collect"
    /\ i \in WalkerWaitsOn => worker[i].pc \notin {"idle", "exited"}

\* C27 witness: a worker waits for the gate token that another worker,
\* inside mmapFile, holds
WorkerWaitsForAnotherWorker ==
  \E i \in Workers :
    /\ WaitsForGate(i)
    /\ \E j \in Workers \ {i} : worker[j].tokens > 0 /\ worker[j].pc = "mmap"

\* the paths enumerated for worker k and not yet analysed: in the batch being
\* filled or sent, in the queued batches, and left in the batch in process
PendingPaths(k) ==
  Len(walker.currentBatches[k]) + SumLens(jobChannels[k], DOMAIN jobChannels[k])
    + Len(worker[k].paths)

\* C28: for every worker the paths enumerated and not yet analysed are at
\* most jobChanCap queued batches of batchSize paths, the batch being filled
\* or sent and the batch being processed, whatever the size of the tree.
PendingPathsBounded ==
  \A k \in Workers :
    /\ Len(jobChannels[k]) <= jobChanCap
    /\ \A b \in 1..Len(jobChannels[k]) : Len(jobChannels[k][b]) <= batchSize
    /\ Len(walker.currentBatches[k]) <= batchSize
    /\ Len(worker[k].paths) <= batchSize
    /\ PendingPaths(k) <= (jobChanCap + 2) * batchSize

\* C28 witness: the enumerator waits on a full job queue with a full batch
\* in hand while the worker still holds a whole batch: the bound is met
EnumeratorBlockedAtBound ==
  \E k \in Workers :
    /\ k \in WalkerWaitsOn
    /\ PendingPaths(k) = (jobChanCap + 2) * batchSize
    /\ PendingPaths(k) < WideFiles

\* C29: Render returns true exactly when a Result of the list is smelly, in
\* every output mode and when the JSON encoding fails, and the process exits
\* with a non-zero code only when Render returned true and CI mode is set.
NonZeroExitOnlyForSmellyInCI ==
  call.fn = "main" =>
    /\ call.out.rendered => (call.out.render <=> \E k \in 1..Len(ret.list) : ret.list[k].smelly)
    /\ call.out.exit # 0 => (call.out.rendered /\ call.out.render /\ call.in.ciMode)

\* C29 as amended: Render returns true exactly when a Result of the list is
\* smelly; after a Scan that returned without error the exit code is non-zero
\* exactly when Render returned true and CI mode is set; without a path, or
\* when Scan returned an error, nothing is rendered and the exit code is 1.
ExitCodeOfMain ==
  call.fn = "main" =>
    /\ call.out.rendered <=> (scn.roots # <<>> /\ ret.err = NoErr)
    /\ call.out.rendered =>
         /\ call.out.render <=> \E k \in 1..Len(ret.list) : ret.list[k].smelly
         /\ call.out.exit # 0 <=> (call.out.render /\ call.in.ciMode)
    /\ ~call.out.rendered => call.out.exit = 1

\* C29 witness: a list whose first Result is not smelly and a later one is,
\* rendered as JSON whose encoding failed, in CI mode
SmellyListRenderedInCI ==
  /\ call.fn = "main" /\ call.out.rendered /\ call.in.json /\ call.in.ciMode
  /\ call.out.printed = <<>>
  /\ Len(ret.list) > 1 /\ ~ret.list[1].smelly
  /\ call.out.render /\ call.out.exit = exitSmelly

\* no queue was closed twice; a closed job queue means the enumerator is past
\* its sends; a closed output queue means every worker has left its loop; a
\* scan that started its tasks returns with every queue closed
QueuesClosedOnce ==
  /\ resultsClosed <= 1
  /\ \A k \in Workers : jobClosed[k] <= 1
  /\ \A k \in Workers : jobClosed[k] > 0 => walker.pc \in {"close", "done"}
  /\ resultsClosed > 0 =>
       /\ \A i \in Workers : worker[i].pc = "exited" /\ jobClosed[i] = 1
       /\ closerpc = "done"
  /\ (mainpc = "done" /\ closerpc # "idle") =>
       (resultsClosed = 1 /\ \A k \in Workers : jobClosed[k] = 1)

\* a step that puts a value on a queue finds the queue open
SendsOnOpenQueues ==
  /\ \A k \in Workers : Len(jobChannels'[k]) > Len(jobChannels[k]) => jobClosed[k] = 0
  /\ Len(resultsChan') > Len(resultsChan) => resultsClosed = 0
  /\ \A k \in Workers : jobClosed'[k] # jobClosed[k] => walker.pc = "close"
  /\ resultsClosed' # resultsClosed => closerpc = "wait"

\* C30: in every interleaving of the batched Scan no value is sent on a
\* closed queue and no queue is closed twice: each job queue is closed once,
\* by the enumerator, after its last send, on success and on error, and the
\* output queue once, after every worker has exited.
QueuesClosedOnceAfterLastSend == []QueuesClosedOnce /\ [][SendsOnOpenQueues]_vars

\* C30 witness: a scan whose walk failed after paths were sent has returned
\* the error with every queue closed once
QueuesClosedAfterWalkError ==
  /\ mainpc = "done" /\ ret.err # NoErr
  /\ Len(dispatched) > 0
  /\ resultsClosed = 1 /\ \A k \in Workers : jobClosed[k] = 1

\* the batches on the job queues and in the enumerator's hands: a queued batch
\* holds 1 to batchSize paths, a batch in hand is shorter than batchSize unless
\* it is the one being sent
BatchSizesInRange ==
  \A k \in Workers :
    /\ \A b \in 1..Len(jobChannels[k]) : Len(jobChannels[k][b]) \in 1..batchSize
    /\ Len(worker[k].paths) <= batchSize
    /\ Len(walker.currentBatches[k]) <= batchSize
    /\ Len(walker.currentBatches[k]) = batchSize => (walker.pc = "send" /\ walker.sendTo = k)

\* a step that puts a batch on a job queue: a full batch leaves from
\* sendBatchIfFull, a shorter one from the final loop of a traversal without
\* error, which visits every worker once
SendsFullOrFinalBatch ==
  \A k \in Workers :
    Len(jobChannels'[k]) > Len(jobChannels[k]) =>
      LET b == jobChannels'[k][Len(jobChannels'[k])] IN
        /\ Len(dispatched') = Len(dispatched) + Len(b)
        /\ walker.pc = "send" => (Len(b) = batchSize /\ walker.sendTo = k)
        /\ walker.pc # "send" =>
             /\ Len(b) \in 1..(batchSize - 1)
             /\ walker.pc = "flush" /\ walker.fi = k /\ walker'.fi = k + 1
             /\ walker.err = NoErr /\ walker.dirQueue = <<>>

\* C31: every batch the enumerator places on a job queue holds 1 to 32
\* paths: a pending batch is sent as soon as it reaches 32 paths, and shorter
\* batches are sent only at the end of a successful traversal, at most one
\* per worker.
BatchesFullOrFinal == []BatchSizesInRange /\ [][SendsFullOrFinalBatch]_vars

\* C31 witness: a traversal without error has sent full batches and then a
\* shorter one
FullBatchesThenShortOne ==
  /\ walker.pc = "done" /\ walker.err = NoErr
  /\ Len(dispatched) > batchSize /\ Len(dispatched) % batchSize # 0

\* scans for the round robin: the dictionary, a file that looks like a rule
\* dictionary and a text file given as roots before a tree with a .git
\* directory and a rule file, under two and three workers; and the directory
\* that fills a batch
RobinScns ==
  { MkScn(<<PDict, PRuleFile, PAmd, PT>>, MkCfg(PDict, 30, 0, w), 1) : w \in 2..3 }
  \cup LateErrScns
SpecRobin == InitWith(RobinScns) /\ [][Next]_vars

\* the paths of the batches of a queue, in order
RECURSIVE Concat(_)
Concat(batches) == IF batches = <<>> THEN <<>> ELSE Head(batches) \o Concat(Tail(batches))

\* the batch of worker k in the enumerator's hands: the final loop sends the
\* batches of the workers below walker.fi and leaves its slice as it was
InHand ==
  [k \in Workers |-> IF k < walker.fi THEN <<>> ELSE walker.currentBatches[k]]

\* the number of files the enumerator has given to a worker's batch so far
Assigned == Len(dispatched) + SumLens(InHand, Workers)

\* how many of the first n files the round robin gives to worker k
ShareOf(k, n) == Cardinality({i \in 0..(n - 1) : (i % numWorkers) + 1 = k})

\* the paths of worker k that no worker has taken yet: its queued batches and
\* the batch in the enumerator's hands
NotTaken(k) == Concat(jobChannels[k]) \o InHand[k]

\* C32: the enumerator gives the i-th file that is not skipped (root files
\* and directory entries counted together, from 0) to worker i mod N, so the
\* next worker is the number of files given so far mod N, and skipped files
\* (.git content, the dictionary, rule files) do not advance it.
RoundRobinAssignment ==
  walker.pc # "idle" =>
    /\ walker.nextWorker = (Assigned % numWorkers) + 1
    /\ \A k \in Workers :
         LET own == NotTaken(k)
             first == ShareOf(k, Assigned) - Len(own)
         IN /\ first >= 0
            /\ Assigned <= Len(EnumeratedFiles) =>
                 \A j \in 1..Len(own) :
                   own[j] = EnumeratedFiles[(first + j - 1) * numWorkers + k]

\* C32 witness: three workers, the dictionary and a rule file skipped, and
\* the five files of the roots and the tree given out
FilesDealtToThreeWorkers ==
  /\ numWorkers = 3 /\ walker.pc = "flush" /\ walker.fi = 1
  /\ Assigned = 5 /\ Len(EnumeratedFiles) = 5
  /\ Len(walker.currentBatches[1]) = 2 /\ Len(walker.currentBatches[3]) = 1

\* C33: ShouldIgnore is a pure query: a call leaves the pattern table and
\* the list of loaded ignore files as they were, so the verdict it gave for a
\* path is the verdict of the table as it stands, whatever was asked before.
VerdictOfStandingTable ==
  call.fn = "ShouldIgnore" => call.out.ignored = ShouldIgnore(patterns, call.in.path)

QueryLeavesTableAlone ==
  call'.fn = "ShouldIgnore" =>
    (patterns' = patterns /\ LoadedIgnoreFiles' = LoadedIgnoreFiles)

ShouldIgnoreIsPure == []VerdictOfStandingTable /\ [][QueryLeavesTableAlone]_vars

\* C33 witness: a query answered "ignored" on a full table
QueryAnsweredIgnored ==
  /\ call.fn = "ShouldIgnore" /\ call.out.ignored
  /\ TableSize(patterns) >= MaxStored

\* the mapped memory of a worker: alive from a successful mapping up to the
\* unmapFile of the deferred function, never while a Result is sent, and only
\* for a file mmapFile maps
MappingAliveOnlyInsideAnalyse ==
  \A i \in Workers :
    /\ worker[i].mapped <=> worker[i].pc \in {"unmapAcquire", "unmap"}
    /\ worker[i].mapped =>
         /\ mmapFile(Head(worker[i].paths)).isMapped
         /\ worker[i].res = analyseResult(Head(worker[i].paths), rules, scn.cfg)
         /\ worker[i].res.path = Head(worker[i].paths)
         /\ \A n \in DOMAIN worker[i].res.detail :
              \E k \in 1..Len(rules) : worker[i].res.detail[n].rule = rules[k]

\* a step of a worker: a mapping is made by mmapFile alone, and exactly for a
\* file it maps; it is released by unmapFile alone; the Result is built
\* before the release and is not touched by it; a Result is sent only with
\* nothing mapped
UnmapAfterLastReadBeforeReturn ==
  \A i \in Workers :
    /\ (~worker[i].mapped /\ worker'[i].mapped) =>
         (worker[i].pc = "mmap" /\ mmapFile(Head(worker[i].paths)).isMapped)
    /\ (worker[i].pc = "mmap" /\ worker'[i].pc # "mmap") =>
         (worker'[i].mapped <=> mmapFile(Head(worker[i].paths)).isMapped)
    /\ (worker[i].mapped /\ ~worker'[i].mapped) => worker[i].pc = "unmap"
    /\ worker[i].mapped => worker'[i].res = worker[i].res
    /\ worker'[i].pc = "unmap" => worker'[i].mapped
    /\ (worker'[i].pc = "send" /\ worker[i].pc # "send") => ~worker'[i].mapped

\* C34: every successful memory mapping of analyse is unmapped exactly once
\* before analyse returns, on every exit path and after the last read of the
\* mapped bytes; content read without mapping is never unmapped; the Result
\* holds the path and rules of the rule list, nothing of the mapped bytes.
MappingsUnmappedOnce ==
  []MappingAliveOnlyInsideAnalyse /\ [][UnmapAfterLastReadBeforeReturn]_vars

\* C34 witness: a scan has returned the Results of a mapped binary file,
\* rejected, and of files read without mapping
MappedAndRejectedFileReturned ==
  /\ mainpc = "done" /\ ret.err = NoErr
  /\ \E k \in 1..Len(ret.list) :
       /\ mmapFile(ret.list[k].path).isMapped /\ HasZero(FS[ret.list[k].path])
  /\ \E k \in 1..Len(ret.list) :
       /\ mmapFile(ret.list[k].path).err = NoErr /\ ~mmapFile(ret.list[k].path).isMapped

\* the sum of Count x Rule.Weight over the entries of a Detail map
RECURSIVE DetailSum(_, _)
DetailSum(detail, names) ==
  IF names = {} THEN 0
  ELSE LET n == CHOOSE x \in names : TRUE
       IN detail[n].count * detail[n].rule.weight + DetailSum(detail, names \ {n})

\* C35: the Score of every returned Result equals the sum of Count x
\* Rule.Weight over the entries of its Detail map, for the built-in rules and
\* for a dictionary whose rules share a name.
ScoreIsSumOverDetail ==
  mainpc = "done" =>
    \A k \in 1..Len(ret.list) :
      ret.list[k].score = DetailSum(ret.list[k].detail, DOMAIN ret.list[k].detail)

\* ---- matchGlob called on its own ----

\* the longest name matchGlob is called with
MaxNameLen == 4
\* literal segments, and patterns of two or three of them separated by "*"
\* or "**"
GlobSegments == { <<97>>, <<98>>, <<97, 98>> }
GlobStars == { <<42>>, <<42, 42>> }
GlobPatterns ==
  { s1 \o st \o s2 : s1 \in GlobSegments, st \in GlobStars, s2 \in GlobSegments }
  \cup { s1 \o <<42>> \o s2 \o <<42>> \o s3 :
           s1 \in GlobSegments, s2 \in GlobSegments, s3 \in GlobSegments }
GlobNames == UNION { [1..n -> {97, 98}] : n \in 0..MaxNameLen }

\* matchGlob(pattern, name)
CallMatchGlob ==
  /\ call = NoCall
  /\ \E pattern \in GlobPatterns, name \in GlobNames :
       call' = [fn |-> "matchGlob", in |-> [pattern |-> pattern, name |-> name],
                out |-> [match |-> matchGlob(pattern, name)]]
  /\ UNCHANGED <<scanVars, patterns, LoadedIgnoreFiles, wdScan>>

SpecGlob == InitCalls /\ [][CallMatchGlob]_vars

\* the name is the literal bytes of the pattern in order, with some string,
\* possibly empty, in place of each "*"
RECURSIVE SegmentsFit(_, _)
SegmentsFit(pattern, name) ==
  IF pattern = <<>> THEN name = <<>>
  ELSE IF Head(pattern) = 42
       THEN \E k \in 0..Len(name) : SegmentsFit(Tail(pattern), SubSeq(name, k + 1, Len(name)))
  ELSE name # <<>> /\ Head(name) = Head(pattern) /\ SegmentsFit(Tail(pattern), Tail(name))

\* C36: for a pattern of literal segments separated by one or more "*",
\* matchGlob is true exactly when the name is the segments in order, each on
\* its own part of the name, with any string in place of each "*".
GlobMatchesSegmentsInOrder ==
  call.fn = "matchGlob" =>
    (call.out.match <=> SegmentsFit(call.in.pattern, call.in.name))

\* the cleaned path lies below the directory
LocatedUnder(filePath, d) ==
  IF d = PDot
  THEN /\ ~filepathIsAbs(filePath)
       /\ PathElems(filePath) # <<>> /\ Head(PathElems(filePath)) # <<46, 46>>
  ELSE IF d = PRoot THEN filepathIsAbs(filePath) /\ filePath # PRoot
  ELSE HasPrefix(filePath, d \o <<47>>)

\* the table with nothing stored for the directory
WithoutPatternsOf(table, d) == [table EXCEPT ![d] = <<>>]

\* C37: the patterns stored for a directory change the verdict only of
\* paths below it: for a path outside, absolute paths and the current
\* directory "." included, the verdict is the one of the table without them.
PatternsReachOnlyBelow ==
  call.fn = "ShouldIgnore" =>
    \A d \in DOMAIN patterns :
      ~LocatedUnder(Clean(call.in.path), d) =>
        call.out.ignored = ShouldIgnore(WithoutPatternsOf(patterns, d), call.in.path)

\* ---- an ignore file loaded again ----

\* the number of patterns after which no further file is loaded
MaxReloaded == 3
\* "*.log" and "!important.log", each for the current directory and for
\* parent/child
ReloadLoads == { Join(PIg, <<97>>), Join(PIg, <<98>>) } \X { PDot, PChild }

\* LoadGitignoreFile(path, baseDir) with the files that are loaded again
CallLoadAgain ==
  /\ TableSize(patterns) < MaxReloaded
  /\ \E load \in ReloadLoads : \E path \in {load[1]}, baseDir \in {load[2]} :
       \E res \in {LoadGitignoreFile(patterns, path, baseDir)} :
         /\ patterns' = res.patterns
         /\ call' = [fn |-> "LoadGitignoreFile",
                     in |-> [path |-> path, baseDir |-> baseDir, before |-> patterns],
                     out |-> [err |-> res.err]]
  /\ UNCHANGED <<scanVars, LoadedIgnoreFiles, wdScan>>

NextReload == CallLoadAgain \/ CallShouldIgnore
SpecReload == InitCalls /\ [][NextReload]_vars

\* the patterns the last load appended
AppendedByLoad == parseLines(ScanLines(Content(FS[call.in.path])))

\* the list holds the block at some place
HoldsBlock(list, block) ==
  \E k \in 0..(Len(list) - Len(block)) : SubSeq(list, k + 1, k + Len(block)) = block

\* the last call loaded a file whose patterns the directory's list held already
LoadedBefore ==
  /\ call.fn = "LoadGitignoreFile" /\ call.out.err = NoErr /\ AppendedByLoad # <<>>
  /\ HoldsBlock(PatternsOf(call.in.before, call.in.baseDir), AppendedByLoad)

\* the last call loaded the file that was the last one loaded for the directory
LoadedLast ==
  /\ call.fn = "LoadGitignoreFile" /\ call.out.err = NoErr /\ AppendedByLoad # <<>>
  /\ \E list \in {PatternsOf(call.in.before, call.in.baseDir)} :
       /\ Len(list) >= Len(AppendedByLoad)
       /\ SubSeq(list, Len(list) - Len(AppendedByLoad) + 1, Len(list)) = AppendedByLoad

\* no verdict differs between the table before the last load and after it
VerdictsAsBefore ==
  \A q \in IgnoreQueries : ShouldIgnore(patterns, q) = ShouldIgnore(call.in.before, q)

\* C38: loading an ignore file a second time for the same base directory
\* does not change the verdict of ShouldIgnore for any path.
ReloadKeepsVerdicts == LoadedBefore => VerdictsAsBefore

\* C38 as amended: loading an ignore file again for the same base directory,
\* with no other file loaded for that directory since, changes no verdict.
ReloadRightAfterKeepsVerdicts == LoadedLast => VerdictsAsBefore

\* C38 witness: "!important.log" was loaded twice in a row for parent/child
\* under "*.log" of the current directory
NegationLoadedTwice ==
  /\ LoadedLast /\ call.in.baseDir = PChild
  /\ Len(patterns[PChild]) = 2 /\ patterns[PChild][1].Negate
  /\ Len(patterns[PDot]) = 1
  /\ ~ShouldIgnore(patterns, PImportantLog) /\ ShouldIgnore(patterns, POtherLog)

====
